---------------------------- MODULE Spec2Model ----------------------------
(***************************************************************************)
(* A model of the usage classifier of the Informative Search extension:    *)
(* TextAnalyzer (src/src/search/textAnalyzer.ts), its context detector and *)
(* its ordered match classifier.                                           *)
(*                                                                         *)
(* JavaScript strings are TLA+ strings and positions are 0-based, as in    *)
(* the source.  Regular expressions are kept as the pattern text of the    *)
(* source and compiled by RegExp; a pattern that does not compile is a     *)
(* SyntaxError, as it is for `new RegExp(...)`.                            *)
(***************************************************************************)
EXTENDS Integers, Sequences, FiniteSets, TLC

(***************************************************************************)
(* JavaScript String methods.                                              *)
(***************************************************************************)
Min(a, b) == IF a <= b THEN a ELSE b

Max(a, b) == IF a >= b THEN a ELSE b

MinOf(S) == CHOOSE x \in S : \A y \in S : x <= y

MaxOf(S) == CHOOSE x \in S : \A y \in S : x >= y

\* s[i]; "" stands for undefined (i out of range)
charAt(s, i) == IF 0 <= i /\ i < Len(s) THEN SubSeq(s, i + 1, i + 1) ELSE ""

Clamp(i, n) == IF i < 0 THEN 0 ELSE IF i > n THEN n ELSE i

\* s.substring(a, b): both ends clamped to 0..length and swapped if a > b
substring(s, a, b) ==
    LET x == Clamp(a, Len(s))
        y == Clamp(b, Len(s))
    IN  SubSeq(s, Min(x, y) + 1, Max(x, y))

\* s.substring(a)
substringFrom(s, a) == substring(s, a, Len(s))

startsWith(s, p) == Len(p) <= Len(s) /\ SubSeq(s, 1, Len(p)) = p

endsWith(s, p) == Len(p) <= Len(s) /\ SubSeq(s, Len(s) - Len(p) + 1, Len(s)) = p

Occurrences(s, p) == {i \in 0..(Len(s) - Len(p)) : SubSeq(s, i + 1, i + Len(p)) = p}

indexOf(s, p) == IF Occurrences(s, p) = {} THEN -1 ELSE MinOf(Occurrences(s, p))

lastIndexOf(s, p) == IF Occurrences(s, p) = {} THEN -1 ELSE MaxOf(Occurrences(s, p))

includes(s, p) == Occurrences(s, p) # {}

\* the WhiteSpace and LineTerminator characters a TLA+ string can hold
LineTerminators == {"\n", "\r"}

WhiteSpace == {" ", "\t", "\f", "\n", "\r"}

NonSpace(s) == {i \in 1..Len(s) : SubSeq(s, i, i) \notin WhiteSpace}

trim(s) == IF NonSpace(s) = {} THEN "" ELSE SubSeq(s, MinOf(NonSpace(s)), MaxOf(NonSpace(s)))

trimLeft(s) == IF NonSpace(s) = {} THEN "" ELSE SubSeq(s, MinOf(NonSpace(s)), Len(s))

(***************************************************************************)
(* Character codes, for the ranges of a character class.                   *)
(***************************************************************************)
\* A TLA+ string cannot hold the backtick: "@", which no pattern and no line of
\* this model uses for itself, stands for it (both lie outside A-Z, a-z, 0-9).
Backtick == "@"

Ascii == " !\"#$%&'()*+,-./0123456789:;<=>?@ABCDEFGHIJKLMNOPQRSTUVWXYZ[\\]^_@abcdefghijklmnopqrstuvwxyz{|}~"

Code(c) == IF c = "\t" THEN 9
           ELSE IF c = "\n" THEN 10
           ELSE IF c = "\f" THEN 12
           ELSE IF c = "\r" THEN 13
           ELSE 32 + indexOf(Ascii, c)

\* the characters lo..hi of the table (code 32 is its first)
CharRange(lo, hi) == {charAt(Ascii, k - 32) : k \in Max(Code(lo), 32)..Code(hi)}

\* the characters of \d and of \w, written out
Digits == {"0", "1", "2", "3", "4", "5", "6", "7", "8", "9"}

WordChars ==
    {"A", "B", "C", "D", "E", "F", "G", "H", "I", "J", "K", "L", "M",
     "N", "O", "P", "Q", "R", "S", "T", "U", "V", "W", "X", "Y", "Z",
     "a", "b", "c", "d", "e", "f", "g", "h", "i", "j", "k", "l", "m",
     "n", "o", "p", "q", "r", "s", "t", "u", "v", "w", "x", "y", "z",
     "0", "1", "2", "3", "4", "5", "6", "7", "8", "9", "_"}

(***************************************************************************)
(* Regular expressions: the syntax tree of a pattern.                      *)
(***************************************************************************)
Chr(c) == [k |-> "chr", c |-> c]

Cls(set, neg) == [k |-> "cls", set |-> set, neg |-> neg]

AnyChar == [k |-> "any"]

Bol == [k |-> "bol"]

Eol == [k |-> "eol"]

Cat(xs) == [k |-> "seq", xs |-> xs]

Alt(l, r) == [k |-> "alt", l |-> l, r |-> r]

Star(x) == [k |-> "star", x |-> x]

Plus(x) == [k |-> "plus", x |-> x]

Opt(x) == [k |-> "opt", x |-> x]

\* a capturing group, the n-th of its pattern
Grp(n, x) == [k |-> "grp", n |-> n, x |-> x]

SyntaxError == [ok |-> FALSE, node |-> Cat(<<>>), i |-> 0]

Parsed(node, i) == [ok |-> TRUE, node |-> node, i |-> i]

\* the character of pattern p at the 1-based position i
PatChar(p, i) == SubSeq(p, i, i)

\* \s \w \d and their complements; any other escaped character stands for itself
EscapeClass(e) ==
    CASE e = "s" -> Cls(WhiteSpace, FALSE)
      [] e = "S" -> Cls(WhiteSpace, TRUE)
      [] e = "w" -> Cls(WordChars, FALSE)
      [] e = "W" -> Cls(WordChars, TRUE)
      [] e = "d" -> Cls(Digits, FALSE)
      [] e = "D" -> Cls(Digits, TRUE)
      [] e = "t" -> Chr("\t")
      [] e = "n" -> Chr("\n")
      [] e = "r" -> Chr("\r")
      [] e = "f" -> Chr("\f")
      [] OTHER -> Chr(e)

\* the members of a class atom, when it is not negated
AtomSet(a) == IF a.k = "chr" THEN {a.c} ELSE a.set

\* one atom of a character class at position j: a character or an escape;
\* width 0 reports a `\` with nothing after it
ClassAtom(p, j) ==
    IF PatChar(p, j) = "\\"
    THEN IF j = Len(p) THEN [w |-> 0, a |-> Chr("")]
         ELSE [w |-> 2, a |-> EscapeClass(PatChar(p, j + 1))]
    ELSE [w |-> 1, a |-> Chr(PatChar(p, j))]

\* the items of a class from position j on, up to its closing `]`; a class
\* the pattern ends in is unterminated.  A negated escape inside a class
\* (\S \W \D) is not used by any pattern of this model.
RECURSIVE ParseClassItems(_, _, _, _)
ParseClassItems(p, j, acc, neg) ==
    IF j > Len(p) THEN SyntaxError
    ELSE IF PatChar(p, j) = "]" THEN Parsed(Cls(acc, neg), j + 1)
    ELSE LET Range(lo, m, hi) ==
                 IF hi.w = 0 THEN SyntaxError
                 ELSE IF lo.a.k # "chr" \/ hi.a.k # "chr"
                 THEN ParseClassItems(p, m + 1 + hi.w,
                          acc \cup AtomSet(lo.a) \cup {"-"} \cup AtomSet(hi.a), neg)
                 ELSE IF Code(lo.a.c) > Code(hi.a.c) THEN SyntaxError
                 ELSE ParseClassItems(p, m + 1 + hi.w, acc \cup CharRange(lo.a.c, hi.a.c), neg)
             Item(lo, m) ==
                 IF lo.w = 0 THEN SyntaxError
                 ELSE IF m + 1 <= Len(p) /\ PatChar(p, m) = "-" /\ PatChar(p, m + 1) # "]"
                 THEN Range(lo, m, ClassAtom(p, m + 1))
                 ELSE ParseClassItems(p, m, acc \cup AtomSet(lo.a), neg)
             First(lo) == Item(lo, j + lo.w)
         IN  First(ClassAtom(p, j))

\* a class `[...]` or `[^...]` whose `[` is at position i
ParseClass(p, i) ==
    IF i + 1 <= Len(p) /\ PatChar(p, i + 1) = "^"
    THEN ParseClassItems(p, i + 2, {}, TRUE)
    ELSE ParseClassItems(p, i + 1, {}, FALSE)

\* an optional quantifier * + ? after the atom r, and a lazy `?` after it
\* (laziness changes which match is found, not whether one is)
Quantified(p, r) ==
    LET q == IF r.i <= Len(p) THEN PatChar(p, r.i) ELSE ""
        lazy == IF r.i + 1 <= Len(p) /\ PatChar(p, r.i + 1) = "?" THEN 1 ELSE 0
    IN  IF ~r.ok THEN r
        ELSE IF q = "*" THEN Parsed(Star(r.node), r.i + 1 + lazy)
        ELSE IF q = "+" THEN Parsed(Plus(r.node), r.i + 1 + lazy)
        ELSE IF q = "?" THEN Parsed(Opt(r.node), r.i + 1 + lazy)
        ELSE r

\* the `(` at position i is escaped when an odd number of `\` stand before it
RECURSIVE Escaped(_, _)
Escaped(p, i) == i > 1 /\ PatChar(p, i - 1) = "\\" /\ ~Escaped(p, i - 1)

\* the number of the capturing group that opens at position i: groups are
\* numbered by their `(`, from the left (no class of a pattern whose
\* captures are read holds a `(`)
GroupIndex(p, i) ==
    Cardinality({j \in 1..i : /\ PatChar(p, j) = "("
                              /\ ~Escaped(p, j)
                              /\ ~(PatChar(p, j + 1) = "?" /\ PatChar(p, j + 2) = ":")})

RECURSIVE ParseDisjunction(_, _)
RECURSIVE ParseAlternative(_, _, _)
RECURSIVE ParseTerm(_, _)

\* Term: an assertion, or an atom with its quantifier.  A quantifier with no
\* atom before it is "nothing to repeat"; `(` must be closed by its `)`;
\* `]`, `{` and `}` stand for themselves outside a class (no pattern of this
\* model holds a braced quantifier {n,m}, a look-around or a back reference).
ParseTerm(p, i) ==
    LET c == PatChar(p, i)
    IN  IF c = "^" THEN Parsed(Bol, i + 1)
        ELSE IF c = "$" THEN Parsed(Eol, i + 1)
        ELSE IF c \in {"*", "+", "?"} THEN SyntaxError
        ELSE IF c = "." THEN Quantified(p, Parsed(AnyChar, i + 1))
        ELSE IF c = "[" THEN Quantified(p, ParseClass(p, i))
        ELSE IF c = "\\"
        THEN IF i = Len(p) THEN SyntaxError
             ELSE Quantified(p, Parsed(EscapeClass(PatChar(p, i + 1)), i + 2))
        ELSE IF c = "("
        THEN LET noncap == i + 2 <= Len(p) /\ PatChar(p, i + 1) = "?" /\ PatChar(p, i + 2) = ":"
                 Group(d) ==
                     IF ~d.ok THEN SyntaxError
                     ELSE IF d.i > Len(p) \/ PatChar(p, d.i) # ")" THEN SyntaxError
                     ELSE Quantified(p, Parsed(IF noncap THEN d.node
                                                  ELSE Grp(GroupIndex(p, i), d.node), d.i + 1))
             IN  Group(ParseDisjunction(p, IF noncap THEN i + 3 ELSE i + 1))
        ELSE Quantified(p, Parsed(Chr(c), i + 1))

\* Alternative: terms up to the end of the pattern, a `|` or a `)`
ParseAlternative(p, i, acc) ==
    IF i > Len(p) \/ PatChar(p, i) \in {"|", ")"} THEN Parsed(Cat(acc), i)
    ELSE LET After(t) ==
                 IF ~t.ok THEN SyntaxError ELSE ParseAlternative(p, t.i, Append(acc, t.node))
         IN  After(ParseTerm(p, i))

\* Disjunction: alternatives separated by `|`
ParseDisjunction(p, i) ==
    LET Either(a, r) == IF ~r.ok THEN SyntaxError ELSE Parsed(Alt(a.node, r.node), r.i)
        After(a) ==
            IF ~a.ok THEN SyntaxError
            ELSE IF a.i <= Len(p) /\ PatChar(p, a.i) = "|"
            THEN Either(a, ParseDisjunction(p, a.i + 1))
            ELSE a
    IN  After(ParseAlternative(p, i, <<>>))

\* new RegExp(p): the compiled pattern, or a SyntaxError (ok = FALSE); a `)`
\* left over at the top level is unmatched
RegExp(p) ==
    LET Whole(d) == IF d.ok /\ d.i = Len(p) + 1 THEN d ELSE SyntaxError
    IN  Whole(ParseDisjunction(p, 1))

(***************************************************************************)
(* Matching: Ends(x, s, S) is the set of positions of s at which a match   *)
(* of x that starts at a position of S can end.                            *)
(***************************************************************************)
Step(s, S, ok(_)) == {i + 1 : i \in {j \in S : j < Len(s) /\ ok(charAt(s, j))}}

RECURSIVE Ends(_, _, _)
RECURSIVE SeqEnds(_, _, _, _)
RECURSIVE StarEnds(_, _, _, _)

Ends(x, s, S) ==
    IF S = {} THEN {}
    ELSE CASE x.k = "chr"  -> Step(s, S, LAMBDA c : c = x.c)
           [] x.k = "cls"  -> Step(s, S, LAMBDA c : (c \in x.set) # x.neg)
           [] x.k = "any"  -> Step(s, S, LAMBDA c : c \notin LineTerminators)
           [] x.k = "bol"  -> S \cap {0}
           [] x.k = "eol"  -> S \cap {Len(s)}
           [] x.k = "seq"  -> SeqEnds(x.xs, 1, s, S)
           [] x.k = "alt"  -> Ends(x.l, s, S) \cup Ends(x.r, s, S)
           [] x.k = "star" -> StarEnds(x.x, s, S, S)
           [] x.k = "plus" -> LET T == Ends(x.x, s, S) IN StarEnds(x.x, s, T, T)
           [] x.k = "opt"  -> S \cup Ends(x.x, s, S)
           [] x.k = "grp"  -> Ends(x.x, s, S)

SeqEnds(xs, n, s, S) ==
    IF n > Len(xs) THEN S ELSE SeqEnds(xs, n + 1, s, Ends(xs[n], s, S))

\* all: the positions reached so far; new: those not yet extended
StarEnds(x, s, all, new) ==
    LET more == Ends(x, s, new) \ all
    IN  IF more = {} THEN all ELSE StarEnds(x, s, all \cup more, more)

\* re.test(s) for a pattern without the g flag: a match may start anywhere
test(re, s) == Ends(re.node, s, 0..Len(s)) # {}

\* patterns.some(pattern => pattern.test(line))
some(patterns, line) == \E n \in 1..Len(patterns) : test(patterns[n], line)

(***************************************************************************)
(* Matching with captures, as exec and match do it: Paths(x, s, st, ic)    *)
(* is the sequence of the ways x matches s from the state st (a position   *)
(* and the captures made so far), in the order the backtracking matcher    *)
(* tries them; the first one that lets the rest of the pattern match is    *)
(* the match.  ic is the i flag.                                           *)
(***************************************************************************)
LowerCase == "abcdefghijklmnopqrstuvwxyz"

UpperCase == "ABCDEFGHIJKLMNOPQRSTUVWXYZ"

\* Canonicalize of the i flag: a letter is compared as its upper case
Canonicalize(c) ==
    IF c # "" /\ includes(LowerCase, c) THEN charAt(UpperCase, indexOf(LowerCase, c)) ELSE c

SameChar(a, b, ic) == IF ic THEN Canonicalize(a) = Canonicalize(b) ELSE a = b

InClass(c, set, ic) == \E m \in set : SameChar(c, m, ic)

\* a single character that satisfies ok is consumed
Consume(s, st, ok(_)) ==
    IF st.i < Len(s) /\ ok(charAt(s, st.i)) THEN <<[st EXCEPT !.i = @ + 1]>> ELSE <<>>

RECURSIVE Paths(_, _, _, _)
RECURSIVE EachPaths(_, _, _, _, _)
RECURSIVE SeqPaths(_, _, _, _, _)
RECURSIVE StarPaths(_, _, _, _)
RECURSIVE EachStarPaths(_, _, _, _, _)

Paths(x, s, st, ic) ==
    CASE x.k = "chr"  -> Consume(s, st, LAMBDA c : SameChar(c, x.c, ic))
      [] x.k = "cls"  -> Consume(s, st, LAMBDA c : InClass(c, x.set, ic) # x.neg)
      [] x.k = "any"  -> Consume(s, st, LAMBDA c : c \notin LineTerminators)
      [] x.k = "bol"  -> IF st.i = 0 THEN <<st>> ELSE <<>>
      [] x.k = "eol"  -> IF st.i = Len(s) THEN <<st>> ELSE <<>>
      [] x.k = "seq"  -> SeqPaths(x.xs, 1, s, <<st>>, ic)
      [] x.k = "alt"  -> Paths(x.l, s, st, ic) \o Paths(x.r, s, st, ic)
      [] x.k = "star" -> StarPaths(x.x, s, st, ic)
      [] x.k = "plus" -> EachStarPaths(x.x, s, Paths(x.x, s, st, ic), 1, ic)
      [] x.k = "opt"  -> Paths(x.x, s, st, ic) \o <<st>>
      [] x.k = "grp"  ->
           LET Captured(ps) ==
                   [n \in 1..Len(ps) |->
                       [ps[n] EXCEPT !.caps = (x.n :> substring(s, st.i, ps[n].i)) @@ @]]
           IN  Captured(Paths(x.x, s, st, ic))

\* the paths of x from each of the states sts, from the k-th on
EachPaths(x, s, sts, k, ic) ==
    IF k > Len(sts) THEN <<>>
    ELSE Paths(x, s, sts[k], ic) \o EachPaths(x, s, sts, k + 1, ic)

SeqPaths(xs, n, s, sts, ic) ==
    IF n > Len(xs) \/ sts = <<>> THEN sts
    ELSE SeqPaths(xs, n + 1, s, EachPaths(xs[n], s, sts, 1, ic), ic)

\* greedy: one more iteration is tried before stopping; an iteration that
\* consumes nothing is not repeated
StarPaths(x, s, st, ic) ==
    LET Longer(r) == r.i > st.i
    IN  EachStarPaths(x, s, SelectSeq(Paths(x, s, st, ic), Longer), 1, ic) \o <<st>>

EachStarPaths(x, s, sts, k, ic) ==
    IF k > Len(sts) THEN <<>>
    ELSE StarPaths(x, s, sts[k], ic) \o EachStarPaths(x, s, sts, k + 1, ic)

\* the result of a match that failed (null)
NoMatch == [found |-> FALSE]

\* regex.exec(s) from lastIndex: the leftmost start that has a path, and its
\* first path; index, the matched text m[0], where it ends, and the captures
RECURSIVE exec(_, _, _, _)
exec(re, s, lastIndex, ic) ==
    IF lastIndex > Len(s) THEN NoMatch
    ELSE LET Found(ps) ==
                 IF ps = <<>> THEN exec(re, s, lastIndex + 1, ic)
                 ELSE [found |-> TRUE, index |-> lastIndex, end |-> ps[1].i,
                       text |-> substring(s, lastIndex, ps[1].i), caps |-> ps[1].caps]
         IN  Found(Paths(re.node, s, [i |-> lastIndex, caps |-> <<>>], ic))

\* s.match(re) for a pattern without flags
match(re, s) == exec(re, s, 0, FALSE)

\* m[n]: the text of the n-th group (a group that took no part is not read
\* by any caller)
GroupText(m, n) == IF n \in DOMAIN m.caps THEN m.caps[n] ELSE ""

(***************************************************************************)
(* UsageCategory (searchTypes.ts) and what a call can end in.              *)
(***************************************************************************)
IMPORT == "import"

EXPORT == "export"

FUNCTION_DEFINITION == "function-definition"

FUNCTION_CALL == "function-call"

VARIABLE_DECLARATION == "variable-declaration"

VARIABLE_USAGE == "variable-usage"

COMPONENT_USAGE == "component-usage"

TYPE_DEFINITION == "type-definition"

INTERFACE_DEFINITION == "interface-definition"

CLASS_DEFINITION == "class-definition"

PROPERTY_ACCESS == "property-access"

COMMENT == "comment"

STRING_LITERAL == "string-literal"

OTHER_CATEGORY == "other"

UsageCategory ==
    {IMPORT, EXPORT, FUNCTION_DEFINITION, FUNCTION_CALL, VARIABLE_DECLARATION,
     VARIABLE_USAGE, COMPONENT_USAGE, TYPE_DEFINITION, INTERFACE_DEFINITION,
     CLASS_DEFINITION, PROPERTY_ACCESS, COMMENT, STRING_LITERAL, OTHER_CATEGORY}

\* a call that ends by throwing what `new RegExp` throws returns no category
ThrownSyntaxError == "SyntaxError"

(***************************************************************************)
(* TextAnalyzer: the context detector.                                     *)
(***************************************************************************)
isInComment(lineText, columnIndex) ==
    LET singleLineComment == indexOf(lineText, "//")
        beforeText == substring(lineText, 0, columnIndex)
        afterText == substringFrom(lineText, columnIndex)
        multiLineStart == lastIndexOf(beforeText, "/*")
        multiLineEnd == indexOf(afterText, "*/")
    IN  IF singleLineComment # -1 /\ singleLineComment <= columnIndex THEN TRUE
        ELSE IF multiLineStart # -1 /\ multiLineEnd # -1 THEN TRUE
        ELSE IF startsWith(trim(lineText), "#") THEN TRUE
        ELSE FALSE

\* the three counters after the loop has read beforeText[0 .. i-1]
RECURSIVE CountQuotes(_, _, _)
CountQuotes(beforeText, i, n) ==
    IF i >= Len(beforeText) THEN n
    ELSE LET unescaped == i = 0 \/ charAt(beforeText, i - 1) # "\\"
         IN  IF charAt(beforeText, i) = "'" /\ unescaped
             THEN CountQuotes(beforeText, i + 1, [n EXCEPT !.singleQuotes = @ + 1])
             ELSE IF charAt(beforeText, i) = "\"" /\ unescaped
             THEN CountQuotes(beforeText, i + 1, [n EXCEPT !.doubleQuotes = @ + 1])
             ELSE IF charAt(beforeText, i) = Backtick /\ unescaped
             THEN CountQuotes(beforeText, i + 1, [n EXCEPT !.backticks = @ + 1])
             ELSE CountQuotes(beforeText, i + 1, n)

\* mutant: every quote counts, escaped or not
isInString_IgnoringEscapes(lineText, columnIndex) ==
    LET beforeText == substring(lineText, 0, columnIndex)
        Count(q) == Cardinality({i \in 0..(Len(beforeText) - 1) : charAt(beforeText, i) = q})
    IN  (Count("'") % 2 = 1) \/ (Count("\"") % 2 = 1) \/ (Count(Backtick) % 2 = 1)

\* mutant: the character at columnIndex is read too
isInString_ThroughColumn(lineText, columnIndex) ==
    LET beforeText == substring(lineText, 0, columnIndex + 1)
        n == CountQuotes(beforeText, 0, [singleQuotes |-> 0, doubleQuotes |-> 0, backticks |-> 0])
    IN  (n.singleQuotes % 2 = 1) \/ (n.doubleQuotes % 2 = 1) \/ (n.backticks % 2 = 1)

isInString(lineText, columnIndex) ==
    LET beforeText == substring(lineText, 0, columnIndex)
        n == CountQuotes(beforeText, 0, [singleQuotes |-> 0, doubleQuotes |-> 0, backticks |-> 0])
    IN  (n.singleQuotes % 2 = 1) \/ (n.doubleQuotes % 2 = 1) \/ (n.backticks % 2 = 1)

(***************************************************************************)
(* TextAnalyzer: the tests of the classifier, each with its patterns.      *)
(***************************************************************************)
importPatterns ==
    << RegExp("^import\\s+.*from\\s+"),
       RegExp("^import\\s+.*=\\s+require"),
       RegExp("^const\\s+.*=\\s+require"),
       RegExp("^from\\s+.*import"),
       RegExp("^#include\\s+"),
       RegExp("^using\\s+") >>

isImportStatement(line, searchTerm) == some(importPatterns, line)

exportPatterns ==
    << RegExp("^export\\s+(default\\s+)?"),
       RegExp("^export\\s*\\{"),
       RegExp("^module\\.exports\\s*=") >>

isExportStatement_SpacedOnly(line, searchTerm) ==
    some(<<exportPatterns[1], exportPatterns[3]>>, line)

isExportStatement(line, searchTerm) == some(exportPatterns, line)

functionJsPatterns ==
    << RegExp("^function\\s+"),
       RegExp("^const\\s+.*=\\s*\\(.*\\)\\s*=>"),
       RegExp("^const\\s+.*=\\s*function"),
       RegExp("^.*:\\s*\\(.*\\)\\s*=>"),
       RegExp("^async\\s+function\\s+") >>

functionPyPatterns ==
    << RegExp("^def\\s+"),
       RegExp("^async\\s+def\\s+") >>

functionJavaPatterns ==
    << RegExp("^\\s*(public|private|protected|static).*\\s+\\w+\\s*\\(") >>

\* mutant: the patterns alone, without the test of a `(` after the match
isFunctionDefinition_PatternsOnly(line, searchTerm, beforeMatch, afterMatch, languageId) ==
    LET patterns == IF languageId = "python" THEN functionPyPatterns
                    ELSE IF languageId = "java" \/ languageId = "csharp" THEN functionJavaPatterns
                    ELSE functionJsPatterns
    IN  some(patterns, line)

isFunctionDefinition(line, searchTerm, beforeMatch, afterMatch, languageId) ==
    LET patterns == IF languageId = "python" THEN functionPyPatterns
                    ELSE IF languageId = "java" \/ languageId = "csharp" THEN functionJavaPatterns
                    ELSE functionJsPatterns
    IN  IF startsWith(afterMatch, "(") THEN TRUE
        ELSE some(patterns, line)

variableJsPatterns ==
    << RegExp("^(const|let|var)\\s+"),
       RegExp("^.*:\\s*[A-Za-z]") >>

variablePyPatterns ==
    << RegExp("^\\s*\\w+\\s*=") >>

\* a variant whose default pattern set is the Python one
isVariableDeclaration_PythonByDefault(line, searchTerm, beforeMatch, afterMatch, languageId) ==
    LET patterns == IF languageId = "javascript" THEN variableJsPatterns ELSE variablePyPatterns
    IN  IF startsWith(afterMatch, "=") \/ startsWith(afterMatch, ":") THEN TRUE
        ELSE some(patterns, line)

isVariableDeclaration(line, searchTerm, beforeMatch, afterMatch, languageId) ==
    LET patterns == IF languageId = "python" THEN variablePyPatterns ELSE variableJsPatterns
    IN  IF startsWith(afterMatch, "=") \/ startsWith(afterMatch, ":") THEN TRUE
        ELSE some(patterns, line)

isFunctionCall(line, searchTerm, afterMatch) == startsWith(trimLeft(afterMatch), "(")

\* the two patterns built from the search term, which is not escaped
reactPatterns(searchTerm) ==
    << RegExp("<" \o searchTerm \o "[\\s/>]"),
       RegExp("</" \o searchTerm \o ">") >>

ComponentLanguages == {"typescriptreact", "javascriptreact", "vue"}

\* isComponentUsage: its value, or threw = TRUE when building a pattern throws
isComponentUsage(line, searchTerm, languageId) ==
    LET Tested(patterns) ==
            IF \E n \in 1..Len(patterns) : ~patterns[n].ok
            THEN [threw |-> TRUE, value |-> FALSE]
            ELSE [threw |-> FALSE, value |-> some(patterns, line)]
    IN  IF languageId \notin ComponentLanguages THEN [threw |-> FALSE, value |-> FALSE]
        ELSE Tested(reactPatterns(searchTerm))

TypeLanguages == {"typescript", "typescriptreact"}

typePatterns ==
    << RegExp("^type\\s+"),
       RegExp("^export\\s+type\\s+") >>

isTypeDefinition(line, searchTerm, beforeMatch, languageId) ==
    IF languageId \notin TypeLanguages THEN FALSE ELSE some(typePatterns, line)

interfacePatterns ==
    << RegExp("^interface\\s+"),
       RegExp("^export\\s+interface\\s+") >>

isInterfaceDefinition(line, searchTerm, beforeMatch, languageId) ==
    IF languageId \notin TypeLanguages THEN FALSE ELSE some(interfacePatterns, line)

classPatterns ==
    << RegExp("^class\\s+"),
       RegExp("^export\\s+class\\s+"),
       RegExp("^abstract\\s+class\\s+"),
       RegExp("^public\\s+class\\s+"),
       RegExp("^private\\s+class\\s+") >>

isClassDefinition(line, searchTerm, beforeMatch, languageId) == some(classPatterns, line)

isPropertyAccess(line, searchTerm, beforeMatch, afterMatch) ==
    IF endsWith(beforeMatch, ".") \/ startsWith(afterMatch, ".") THEN TRUE
    ELSE IF endsWith(beforeMatch, "[") /\ startsWith(afterMatch, "]") THEN TRUE
    ELSE FALSE

declarationKeyword_Unanchored == RegExp("^(const|let|var|function)\\s*")

declarationKeyword == RegExp("^(const|let|var|function)\\s*$")

isVariableUsage(line, searchTerm, beforeMatch, afterMatch) ==
    LET isNotDeclaration == ~test(declarationKeyword, beforeMatch)
        isNotFunctionCall == ~startsWith(trimLeft(afterMatch), "(")
        isNotPropertyAccess == ~endsWith(beforeMatch, ".") /\ ~endsWith(beforeMatch, "[")
    IN  isNotDeclaration /\ isNotFunctionCall /\ isNotPropertyAccess

(***************************************************************************)
(* TextAnalyzer.categorizeMatch, in two parts: categorizeSyntax is what    *)
(* the method does once both context flags are false (its tests on the     *)
(* text), categorizeMatch the method from its first line.  allLines and    *)
(* lineNumber are parameters the method never reads.                       *)
(***************************************************************************)
categorizeSyntax(lineText, columnIndex, searchTerm, languageId) ==
    LET trimmedLine == trim(lineText)
        beforeMatch == trim(substring(lineText, 0, columnIndex))
        afterMatch == trim(substringFrom(lineText, columnIndex + Len(searchTerm)))
        component == isComponentUsage(trimmedLine, searchTerm, languageId)
    IN  IF isImportStatement(trimmedLine, searchTerm) THEN IMPORT
        ELSE IF isExportStatement(trimmedLine, searchTerm) THEN EXPORT
        ELSE IF isFunctionDefinition(trimmedLine, searchTerm, beforeMatch, afterMatch, languageId)
        THEN FUNCTION_DEFINITION
        ELSE IF isVariableDeclaration(trimmedLine, searchTerm, beforeMatch, afterMatch, languageId)
        THEN VARIABLE_DECLARATION
        ELSE IF isFunctionCall(trimmedLine, searchTerm, afterMatch) THEN FUNCTION_CALL
        ELSE IF component.threw THEN ThrownSyntaxError
        ELSE IF component.value THEN COMPONENT_USAGE
        ELSE IF isTypeDefinition(trimmedLine, searchTerm, beforeMatch, languageId)
        THEN TYPE_DEFINITION
        ELSE IF isInterfaceDefinition(trimmedLine, searchTerm, beforeMatch, languageId)
        THEN INTERFACE_DEFINITION
        ELSE IF isClassDefinition(trimmedLine, searchTerm, beforeMatch, languageId)
        THEN CLASS_DEFINITION
        ELSE IF isPropertyAccess(trimmedLine, searchTerm, beforeMatch, afterMatch)
        THEN PROPERTY_ACCESS
        ELSE IF isVariableUsage(trimmedLine, searchTerm, beforeMatch, afterMatch)
        THEN VARIABLE_USAGE
        ELSE OTHER_CATEGORY

\* mutant: the string flag is read before the comment flag
categorizeMatch_StringFirst(lineText, columnIndex, searchTerm, context, languageId) ==
    IF context.isInString THEN STRING_LITERAL
    ELSE IF context.isInComment THEN COMMENT
    ELSE categorizeSyntax(lineText, columnIndex, searchTerm, languageId)

\* mutant: import and export statements are recognised before the string flag
categorizeMatch_StatementFirst(lineText, columnIndex, searchTerm, context, languageId) ==
    IF context.isInComment THEN COMMENT
    ELSE IF isImportStatement(trim(lineText), searchTerm) THEN IMPORT
    ELSE IF isExportStatement(trim(lineText), searchTerm) THEN EXPORT
    ELSE IF context.isInString THEN STRING_LITERAL
    ELSE categorizeSyntax(lineText, columnIndex, searchTerm, languageId)

categorizeMatch(lineText, columnIndex, searchTerm, context, languageId) ==
    IF context.isInComment THEN COMMENT
    ELSE IF context.isInString THEN STRING_LITERAL
    ELSE categorizeSyntax(lineText, columnIndex, searchTerm, languageId)

(***************************************************************************)
(* TextAnalyzer: the rest of the MatchContext.  An optional value is       *)
(* Undefined or Defined(v).                                                *)
(***************************************************************************)
Undefined == <<>>

Defined(v) == <<v>>

\* Array.prototype.slice(start, end) of the array a (0-based, end excluded)
slice(a, start, end) ==
    LET Index(k) == IF k < 0 THEN Max(Len(a) + k, 0) ELSE Min(k, Len(a))
    IN  SubSeq(a, Index(start) + 1, Index(end))

\* String.prototype.split(sep), for a separator that is not empty
RECURSIVE split(_, _)
split(s, sep) ==
    IF indexOf(s, sep) = -1 THEN <<s>>
    ELSE <<substring(s, 0, indexOf(s, sep))>>
             \o split(substringFrom(s, indexOf(s, sep) + Len(sep)), sep)

\* mutant: the window stops at lineNumber + radius, that line excluded
getSurroundingLines_EndExcluded(allLines, lineNumber, radius) ==
    slice(allLines, Max(0, lineNumber - radius), Min(Len(allLines), lineNumber + radius))

getSurroundingLines(allLines, lineNumber, radius) ==
    LET start == Max(0, lineNumber - radius)
        end == Min(Len(allLines), lineNumber + radius + 1)
    IN  slice(allLines, start, end)

functionPattern == RegExp("^(async\\s+)?function\\s+(\\w+)\\s*\\(")

arrowPattern == RegExp("^(const|let|var)\\s+(\\w+)\\s*=\\s*.*=>")

methodPattern == RegExp("^(\\w+)\\s*\\(")

\* mutant: a call is taken for a method whatever the line contains
FunctionNameOn_AnyCall(line) ==
    LET Method(methodMatch) ==
            IF methodMatch.found THEN Defined(GroupText(methodMatch, 1)) ELSE Undefined
        Arrow(arrowMatch) ==
            IF arrowMatch.found THEN Defined(GroupText(arrowMatch, 2))
            ELSE Method(match(methodPattern, line))
        Function(functionMatch) ==
            IF functionMatch.found THEN Defined(GroupText(functionMatch, 2))
            ELSE Arrow(match(arrowPattern, line))
    IN  Function(match(functionPattern, line))

\* what one turn of the loop of getFunctionContext finds on a trimmed line
FunctionNameOn(line) ==
    LET Method(methodMatch) ==
            IF methodMatch.found /\ ~includes(line, "if") /\ ~includes(line, "for")
                                /\ ~includes(line, "while")
            THEN Defined(GroupText(methodMatch, 1))
            ELSE Undefined
        Arrow(arrowMatch) ==
            IF arrowMatch.found THEN Defined(GroupText(arrowMatch, 2))
            ELSE Method(match(methodPattern, line))
        Function(functionMatch) ==
            IF functionMatch.found THEN Defined(GroupText(functionMatch, 2))
            ELSE Arrow(match(arrowPattern, line))
    IN  Function(match(functionPattern, line))

\* getFunctionContext: the loop `for (let i = lineNumber; i >= 0; i--)`,
\* entered with i = lineNumber (a lineNumber past the last line is not
\* modelled: no caller passes one)
RECURSIVE getFunctionContext(_, _)
getFunctionContext(allLines, lineNumber) ==
    IF lineNumber < 0 THEN Undefined
    ELSE LET Turn(found) ==
                 IF found # Undefined THEN found
                 ELSE getFunctionContext(allLines, lineNumber - 1)
         IN  Turn(FunctionNameOn(trim(allLines[lineNumber + 1])))

classPattern == RegExp("^(export\\s+)?(abstract\\s+)?class\\s+(\\w+)")

\* mutant: the first group is read instead of the third
ClassNameOn_FirstGroup(line) ==
    LET Class(classMatch) ==
            IF classMatch.found THEN Defined(GroupText(classMatch, 1)) ELSE Undefined
    IN  Class(match(classPattern, line))

\* what one turn of the loop of getClassContext finds on a trimmed line
ClassNameOn(line) ==
    LET Class(classMatch) ==
            IF classMatch.found THEN Defined(GroupText(classMatch, 3)) ELSE Undefined
    IN  Class(match(classPattern, line))

\* getClassContext: the same loop, entered with i = lineNumber
RECURSIVE getClassContext(_, _)
getClassContext(allLines, lineNumber) ==
    IF lineNumber < 0 THEN Undefined
    ELSE LET Turn(found) ==
                 IF found # Undefined THEN found
                 ELSE getClassContext(allLines, lineNumber - 1)
         IN  Turn(ClassNameOn(trim(allLines[lineNumber + 1])))

namedImportPattern == RegExp("import\\s*\\{\\s*([^}]+)\\s*\\}")

defaultImportPattern == RegExp("import\\s+(\\w+)\\s+from")

namespaceImportPattern == RegExp("import\\s+\\*\\s+as\\s+(\\w+)\\s+from")

\* items.map(item => item.trim())
TrimEach(items) == [n \in 1..Len(items) |-> trim(items[n])]

extractImportedItems(line) ==
    LET Pushed(m) == IF m.found THEN <<GroupText(m, 1)>> ELSE <<>>
        Named(namedMatch) ==
            IF namedMatch.found THEN TrimEach(split(GroupText(namedMatch, 1), ","))
            ELSE Pushed(match(defaultImportPattern, line))
                     \o Pushed(match(namespaceImportPattern, line))
    IN  Named(match(namedImportPattern, line))

\* mutant: the line is tested for an import as it is, not trimmed
getMatchContext_Untrimmed(lineText, columnIndex, allLines, lineNumber) ==
    [isInComment |-> isInComment(lineText, columnIndex),
     isInString |-> isInString(lineText, columnIndex),
     surroundingLines |-> getSurroundingLines(allLines, lineNumber, 2),
     functionName |-> getFunctionContext(allLines, lineNumber),
     className |-> getClassContext(allLines, lineNumber),
     importedItems |-> IF isImportStatement(lineText, "")
                       THEN Defined(extractImportedItems(lineText)) ELSE Undefined]

\* getMatchContext: the MatchContext of a match; functionName and className
\* are Undefined when the scan finds none, importedItems when the field is
\* not set
getMatchContext(lineText, columnIndex, allLines, lineNumber) ==
    [isInComment |-> isInComment(lineText, columnIndex),
     isInString |-> isInString(lineText, columnIndex),
     surroundingLines |-> getSurroundingLines(allLines, lineNumber, 2),
     functionName |-> getFunctionContext(allLines, lineNumber),
     className |-> getClassContext(allLines, lineNumber),
     importedItems |-> IF isImportStatement(trim(lineText), "")
                       THEN Defined(extractImportedItems(lineText)) ELSE Undefined]

(***************************************************************************)
(* CategorizedResults (searchTypes.ts).  A Map keeps its keys in the order *)
(* of their first insertion: keys is that order, at the value of each key. *)
(* searchTime, which only Date.now() decides, is left out.                 *)
(***************************************************************************)
\* Object.values(UsageCategory)
CategoryValues ==
    << IMPORT, EXPORT, FUNCTION_DEFINITION, FUNCTION_CALL, VARIABLE_DECLARATION,
       VARIABLE_USAGE, COMPONENT_USAGE, TYPE_DEFINITION, INTERFACE_DEFINITION,
       CLASS_DEFINITION, PROPERTY_ACCESS, COMMENT, STRING_LITERAL, OTHER_CATEGORY >>

NewMap == [keys |-> <<>>, at |-> <<>>]

MapHas(m, k) == k \in DOMAIN m.at

\* m.get(k) || default
MapGetOr(m, k, default) == IF MapHas(m, k) THEN m.at[k] ELSE default

MapSet(m, k, v) ==
    [keys |-> IF MapHas(m, k) THEN m.keys ELSE Append(m.keys, k),
     at |-> (k :> v) @@ m.at]

\* new Map(), then every category set to [] in the order of the enum
RECURSIVE InitializeCategories(_, _)
InitializeCategories(m, k) ==
    IF k > Len(CategoryValues) THEN m
    ELSE InitializeCategories(MapSet(m, CategoryValues[k], <<>>), k + 1)

NewResults(searchTerm) ==
    [searchTerm |-> searchTerm,
     totalMatches |-> 0,
     categories |-> InitializeCategories(NewMap, 1),
     searchedFiles |-> 0]

\* what a call that throws, or a promise that is rejected, ends in
Thrown == [thrown |-> TRUE]

\* null
Null == [null |-> TRUE]

(***************************************************************************)
(* SearchProvider.                                                         *)
(***************************************************************************)
RegExpSpecials == {".", "*", "+", "?", "^", "$", "{", "}", "(", ")", "|", "[", "]", "\\"}

\* s.replace(/[.*+?^${}()|[\]\\]/g, '\\$&')
RECURSIVE escapeRegExp(_)
escapeRegExp(s) ==
    IF s = "" THEN ""
    ELSE (IF charAt(s, 0) \in RegExpSpecials THEN "\\" ELSE "")
             \o charAt(s, 0) \o escapeRegExp(substringFrom(s, 1))

\* the search pattern: its syntax tree, and ic for the i flag; a search term
\* that is no regular expression is searched literally
createSearchPattern(searchTerm, config) ==
    LET Compiled(re) ==
            [node |-> IF re.ok THEN re.node ELSE RegExp(escapeRegExp(searchTerm)).node,
             ic |-> ~config.caseSensitive]
    IN  Compiled(RegExp(IF config.useRegex THEN searchTerm ELSE escapeRegExp(searchTerm)))

\* pattern.lastIndex at the end of a turn of the loop of findMatches: exec
\* left it at the end of the match, and a zero-width match moves it on by one
lastIndexAfter_Unguarded(m) == m.end

lastIndexAfter(m) == IF m.index = m.end THEN m.end + 1 ELSE m.end

\* the loop of findMatches, from pattern.lastIndex = lastIndex on
RECURSIVE ExecLoop(_, _, _)
ExecLoop(line, pattern, lastIndex) ==
    LET Matched(m) ==
            IF ~m.found THEN <<>>
            ELSE <<[index |-> m.index, match |-> m.text]>>
                     \o ExecLoop(line, pattern, lastIndexAfter(m))
    IN  Matched(exec(pattern, line, lastIndex, pattern.ic))

findMatches(line, pattern, config) == ExecLoop(line, pattern, 0)

\* the SearchMatch of a match, Undefined for a match that is filtered out;
\* its category is ThrownSyntaxError when categorizeMatch throws
analyzeMatch(document, lineNumber, columnIndex, searchTerm, lineText, allLines, config) ==
    LET Analyzed(context) ==
            IF ~config.includeComments /\ context.isInComment THEN Undefined
            ELSE IF ~config.includeStringLiterals /\ context.isInString THEN Undefined
            ELSE Defined([searchTerm |-> searchTerm,
                          file |-> document.fsPath,
                          line |-> lineNumber,
                          column |-> columnIndex,
                          lineText |-> lineText,
                          category |-> categorizeMatch(lineText, columnIndex, searchTerm,
                                                       context, document.languageId),
                          context |-> context,
                          range |-> [start |-> [line |-> lineNumber, character |-> columnIndex],
                                     end |-> [line |-> lineNumber,
                                              character |-> columnIndex + Len(searchTerm)]]])
    IN  Analyzed(getMatchContext(lineText, columnIndex, allLines, lineNumber))

\* the matches of one line, analysed in the order findMatches found them
RECURSIVE AnalyzeEach(_, _, _, _, _, _, _)
AnalyzeEach(document, lineNumber, matches, k, searchTerm, lines, config) ==
    IF k > Len(matches) THEN <<>>
    ELSE analyzeMatch(document, lineNumber, matches[k].index, searchTerm,
                      lines[lineNumber + 1], lines, config)
             \o AnalyzeEach(document, lineNumber, matches, k + 1, searchTerm, lines, config)

\* the loop over the lines of searchInDocument
RECURSIVE SearchLines(_, _, _, _, _, _)
SearchLines(document, lines, lineNumber, searchPattern, searchTerm, config) ==
    IF lineNumber >= Len(lines) THEN <<>>
    ELSE AnalyzeEach(document, lineNumber,
                     findMatches(lines[lineNumber + 1], searchPattern, config), 1,
                     searchTerm, lines, config)
             \o SearchLines(document, lines, lineNumber + 1, searchPattern, searchTerm, config)

\* each match pushed onto the list of its category, in the order found: the
\* list of a category ends up holding the matches of that category
PushAll(results, found) ==
    [results EXCEPT
        !.categories.at = [c \in DOMAIN @ |->
                              LET OfCategory(m) == m.category = c
                              IN  @[c] \o SelectSeq(found, OfCategory)],
        !.totalMatches = @ + Len(found)]

searchInDocument(document, searchTerm, config) ==
    LET Collected(found) ==
            IF \E k \in 1..Len(found) : found[k].category = ThrownSyntaxError THEN Thrown
            ELSE PushAll(NewResults(searchTerm), found)
    IN  Collected(SearchLines(document, split(document.text, "\n"), 0,
                              createSearchPattern(searchTerm, config), searchTerm, config))

searchInFile(document, searchTerm, config) ==
    LET Done(results) ==
            IF results = Thrown THEN Thrown ELSE [results EXCEPT !.searchedFiles = 1]
    IN  Done(searchInDocument(document, searchTerm, config))

binaryExtensions ==
    <<".exe", ".dll", ".so", ".dylib", ".bin", ".jpg", ".jpeg", ".png", ".gif", ".pdf">>

RECURSIVE toLowerCase(_)
toLowerCase(s) ==
    IF s = "" THEN ""
    ELSE (IF includes(UpperCase, charAt(s, 0))
          THEN charAt(LowerCase, indexOf(UpperCase, charAt(s, 0))) ELSE charAt(s, 0))
             \o toLowerCase(substringFrom(s, 1))

\* the files of the workspace that findFiles gave, the binary ones left out
findFilesToSearch(workspace) ==
    LET Text(file) ==
            LET fileName == toLowerCase(file.fsPath)
            IN  ~\E k \in 1..Len(binaryExtensions) : endsWith(fileName, binaryExtensions[k])
    IN  SelectSeq(workspace, Text)

\* the merge loop of searchInWorkspace, category by category of the file's
\* results: a category with free slots takes as many of the file's matches
\* as fit.  The keys of a Map are distinct, so each category is merged once
\* and its turn reads what the results held before the loop.
availableSlots(results, c, config) ==
    config.maxResultsPerCategory - Len(MapGetOr(results.categories, c, <<>>))

matchesToAdd(results, fileResults, c, config) ==
    slice(fileResults.categories.at[c], 0, availableSlots(results, c, config))

\* the number of matches the categories from the k-th key on add
RECURSIVE AddedFrom(_, _, _, _)
AddedFrom(results, fileResults, k, config) ==
    IF k > Len(fileResults.categories.keys) THEN 0
    ELSE (IF availableSlots(results, fileResults.categories.keys[k], config) > 0
          THEN Len(matchesToAdd(results, fileResults, fileResults.categories.keys[k], config))
          ELSE 0)
             + AddedFrom(results, fileResults, k + 1, config)

Merge(results, fileResults, config) ==
    LET Open(c) ==
            /\ MapHas(fileResults.categories, c)
            /\ availableSlots(results, c, config) > 0
        New(c) == Open(c) /\ ~MapHas(results.categories, c)
    IN  [results EXCEPT
            !.categories =
                [keys |-> @.keys \o SelectSeq(fileResults.categories.keys, New),
                 at |-> [c \in DOMAIN @.at \cup {d \in DOMAIN fileResults.categories.at : Open(d)} |->
                            IF Open(c)
                            THEN MapGetOr(@, c, <<>>) \o matchesToAdd(results, fileResults, c, config)
                            ELSE @.at[c]]],
            !.totalMatches = @ + AddedFrom(results, fileResults, 1, config)]

\* mutant: a file whose search throws is not counted
SearchedFile_FailureNotCounted(results, fileResults, n, config) ==
    IF fileResults = Thrown THEN results
    ELSE [Merge(results, fileResults, config) EXCEPT !.searchedFiles = n]

\* one turn of the loop over the files: the results after the n-th file,
\* whose search gave fileResults; a file whose search throws is counted and
\* gives nothing
SearchedFile(results, fileResults, n, config) ==
    [(IF fileResults = Thrown THEN results ELSE Merge(results, fileResults, config))
        EXCEPT !.searchedFiles = n]

\* the loop of filterResultsByCategory over the categories asked for
RECURSIVE FilterFrom(_, _, _, _)
FilterFrom(filteredResults, results, categories, k) ==
    IF k > Len(categories) THEN filteredResults
    ELSE LET matches == MapGetOr(results.categories, categories[k], <<>>)
         IN  IF Len(matches) > 0
             THEN FilterFrom([filteredResults EXCEPT
                                 !.categories = MapSet(@, categories[k], matches),
                                 !.totalMatches = @ + Len(matches)],
                             results, categories, k + 1)
             ELSE FilterFrom(filteredResults, results, categories, k + 1)

filterResultsByCategory(results, categories) ==
    FilterFrom([results EXCEPT !.categories = NewMap, !.totalMatches = 0],
               results, categories, 1)

(***************************************************************************)
(* CATEGORY_INFO (searchTypes.ts) and InformativeSearchTreeProvider.       *)
(***************************************************************************)
CATEGORY_INFO ==
    (IMPORT :> [priority |-> 1]) @@ (EXPORT :> [priority |-> 2])
    @@ (FUNCTION_DEFINITION :> [priority |-> 3]) @@ (FUNCTION_CALL :> [priority |-> 4])
    @@ (VARIABLE_DECLARATION :> [priority |-> 5]) @@ (VARIABLE_USAGE :> [priority |-> 6])
    @@ (COMPONENT_USAGE :> [priority |-> 7]) @@ (TYPE_DEFINITION :> [priority |-> 8])
    @@ (INTERFACE_DEFINITION :> [priority |-> 9]) @@ (CLASS_DEFINITION :> [priority |-> 10])
    @@ (PROPERTY_ACCESS :> [priority |-> 11]) @@ (COMMENT :> [priority |-> 12])
    @@ (STRING_LITERAL :> [priority |-> 13]) @@ (OTHER_CATEGORY :> [priority |-> 14])

\* a.sort((a, b) => CATEGORY_INFO[a].priority - CATEGORY_INFO[b].priority),
\* a stable sort: x goes after the last element that does not compare
\* greater than x
RECURSIVE InsertByPriority(_, _)
InsertByPriority(sorted, x) ==
    IF sorted = <<>> THEN <<x>>
    ELSE IF CATEGORY_INFO[sorted[Len(sorted)]].priority - CATEGORY_INFO[x].priority <= 0
    THEN Append(sorted, x)
    ELSE Append(InsertByPriority(SubSeq(sorted, 1, Len(sorted) - 1), x), sorted[Len(sorted)])

RECURSIVE sortByPriority(_)
sortByPriority(a) ==
    IF a = <<>> THEN <<>>
    ELSE InsertByPriority(sortByPriority(SubSeq(a, 1, Len(a) - 1)), a[Len(a)])

\* the node of a category: its label shows the number of matches
CategoryNode(currentResults, c) ==
    [itemType |-> "category", category |-> c,
     matches |-> Len(MapGetOr(currentResults.categories, c, <<>>))]

\* mutant: the categories in the order of the keys of the map
getCategoryNodes_Unsorted(currentResults) ==
    IF currentResults = Null THEN <<>>
    ELSE LET HasMatches(c) == Len(MapGetOr(currentResults.categories, c, <<>>)) > 0
             Nodes(sortedCategories) ==
                 [k \in 1..Len(sortedCategories) |->
                     CategoryNode(currentResults, sortedCategories[k])]
         IN  Nodes(SelectSeq(currentResults.categories.keys, HasMatches))

getCategoryNodes(currentResults) ==
    IF currentResults = Null THEN <<>>
    ELSE LET HasMatches(c) == Len(MapGetOr(currentResults.categories, c, <<>>)) > 0
             Nodes(sortedCategories) ==
                 [k \in 1..Len(sortedCategories) |->
                     CategoryNode(currentResults, sortedCategories[k])]
         IN  Nodes(sortByPriority(SelectSeq(currentResults.categories.keys, HasMatches)))

\* getChildren() of the root
getChildren(currentResults) ==
    IF currentResults = Null THEN <<>> ELSE getCategoryNodes(currentResults)

filterByCategory_TermLost(currentResults, categories) ==
    IF currentResults = Null THEN Null
    ELSE [filterResultsByCategory(currentResults, categories) EXCEPT !.searchTerm = ""]

\* filterByCategory of the tree provider: the new currentResults
filterByCategory(currentResults, categories) ==
    IF currentResults = Null THEN Null
    ELSE filterResultsByCategory(currentResults, categories)

\* the matches of all categories of a result, in the order of its keys
RECURSIVE AllMatches(_, _)
AllMatches(results, k) ==
    IF k > Len(results.categories.keys) THEN <<>>
    ELSE results.categories.at[results.categories.keys[k]] \o AllMatches(results, k + 1)

(***************************************************************************)
(* The inputs.  A line is one of the example lines, or up to MaxTokens     *)
(* tokens written one after the other; a column is any position of the     *)
(* line, its end included.                                                 *)
(***************************************************************************)
RECURSIVE LinesOf(_, _)
LinesOf(tokens, n) ==
    IF n = 0 THEN {""}
    ELSE LinesOf(tokens, n - 1) \cup {l \o t : l \in LinesOf(tokens, n - 1), t \in tokens}

MaxTokens == 2

Tokens == {"x", " ", "(", ".", "=", "["}

ExampleLines ==
    {"function doThing(x) {", "const total = x.value", "doThing(1)", "x = doThing (1)",
     "import { x } from 'm'", "import x = require('m')", "const x = require('m')",
     "from m import x", "#include <x>", "using x;",
     "export default x", "export { x }", "module.exports = x", "export class x {",
     "const x = (a) => a", "const x = function", "x: (a) => a", "async function x",
     "def doThing(x):", "async def x", "public void doThing(x)", "x = 1", "  x: Foo",
     "let x", "var x;", "  return <x />;", "</x>", "<x>", "type x = a", "interface x {",
     "class x {", "abstract class x", "public class x", "a.x", "x.value", "a[x]",
     "return x", "function x", "a.[x", "f(x(1)",
     "export type x = a", "export interface x {", "export function x() {", "export{x}"}

Lines == ExampleLines \cup LinesOf(Tokens, MaxTokens)

SearchTerms == {"x", "value", "doThing", "x(", "[x"}

Languages ==
    {"javascript", "python", "java", "csharp", "typescript", "typescriptreact",
     "javascriptreact", "vue", "", "plaintext"}

Contexts == [isInComment : BOOLEAN, isInString : BOOLEAN]

MaxDetectorTokens == 3

DetectorTokens == {"'", "\"", Backtick, "\\", "//", "/*", "*/", "#", " ", "x"}

DetectorExamples ==
    {"// foo bar", "let x = 5; // trailing", "const x = 'a,b';", "/* a */ x /* b */",
     "x /* a */ y", "  # note", "s = 'it\\'s' + x", "a = \"b\" + 'c' + x",
     "say(\"it's \\'x\\'\")"}

DetectorLines == DetectorExamples \cup LinesOf(DetectorTokens, MaxDetectorTokens)

NoContext == [isInComment |-> FALSE, isInString |-> FALSE]

\* the files whose context is asked for: up to MaxLines lines
MaxLines == 3

ContextLines ==
    {"function foo() {", "  return 1;", "}", "class Bar {", "  method() {}",
     "const f = (a) => a", "notify(x)", "export abstract class Baz", "  import x from 'm'"}

FilesOf(lines, n) == UNION {[1..k -> lines] : k \in 1..n}

\* files long enough for a window of five lines to lie inside them
MaxPlainLines == 6

PlainLines == {"a", "b"}

ContextFiles == FilesOf(ContextLines, MaxLines) \cup FilesOf(PlainLines, MaxPlainLines)

\* the lines handed to extractImportedItems: up to MaxImportTokens pieces
MaxImportTokens == 2

ImportTokens ==
    {"import { a, b } from 'm'", "import x from 'm'", "import * as ns from 'm'", "; ",
     "import {a,b ,c}", "import {}", "import x", " from 'm'", "x", "// "}

ImportExamples == {"import a from 'x'; import * as b from 'y'", "import { a } from 'x'; import b from 'y'"}

ImportLines == ImportExamples \cup LinesOf(ImportTokens, MaxImportTokens)

\* the search terms a user types
SearchQueries == {"foo", "x.*", "x("}

\* the largest maxResultsPerCategory of a configuration
MaxResults == 1

\* SearchConfiguration, without the glob patterns that findFiles reads
Configurations ==
    [caseSensitive : BOOLEAN, useRegex : BOOLEAN, includeComments : BOOLEAN,
     includeStringLiterals : BOOLEAN, maxResultsPerCategory : 0..MaxResults]

DEFAULT_SEARCH_CONFIG ==
    [caseSensitive |-> FALSE, useRegex |-> FALSE, includeComments |-> TRUE,
     includeStringLiterals |-> FALSE, maxResultsPerCategory |-> 100]

\* the files of a workspace, each with the document it opens as
WorkspaceFiles ==
    { [fsPath |-> "a.js", languageId |-> "javascript",
       text |-> "function foo() {\n  Foo(foo)\n}"],
      [fsPath |-> "b.tsx", languageId |-> "typescriptreact",
       text |-> "f(x(1)\n<Foo a='foo' />\n// foo\n// 'foo'"],
      [fsPath |-> "c.py", languageId |-> "python",
       text |-> "foo = 1\nfoo = xy"],
      [fsPath |-> "LOGO.PNG", languageId |-> "plaintext", text |-> "foo"] }

\* the most files a workspace holds
MaxFiles == 2

Workspaces == {<<>>} \cup FilesOf(WorkspaceFiles, MaxFiles)

\* matches as analyzeMatch builds them, one per category of a sample
SampleMatch(c) ==
    [searchTerm |-> "foo", file |-> "a.js", line |-> 0, column |-> 0, lineText |-> "foo",
     category |-> c,
     context |-> [isInComment |-> c = COMMENT, isInString |-> c = STRING_LITERAL,
                  surroundingLines |-> <<"foo">>, functionName |-> Undefined,
                  className |-> Undefined, importedItems |-> Undefined],
     range |-> [start |-> [line |-> 0, character |-> 0],
                end |-> [line |-> 0, character |-> 3]]]

TreeCategories == {IMPORT, COMMENT, OTHER_CATEGORY}

\* the most matches of a result handed to the tree
MaxTreeMatches == 2

\* results as a search builds them: every category a key, in enum order;
\* those of a search for "foo", and those of a search that found nothing
TreeResults ==
    {PushAll(NewResults("foo"), [k \in 1..Len(cs) |-> SampleMatch(cs[k])]) :
        cs \in {<<>>} \cup FilesOf(TreeCategories, MaxTreeMatches)}
    \cup {NewResults("x")}

\* the longest list of categories handed to filterByCategory
MaxFilter == 2

FilterLists == {<<>>} \cup FilesOf(TreeCategories, MaxFilter)

NoCategory == "none"

(***************************************************************************)
(* The state: the arguments of the call, the context of the match and the  *)
(* category returned.                                                      *)
(***************************************************************************)
VARIABLES lineText, columnIndex, searchTerm, languageId, context, category, pc
\* the file of the match, and the array extractImportedItems returned
VARIABLES allLines, lineNumber, items
\* the configuration and the workspace of a search, the files that
\* searchInWorkspace found to search, what the search returned so far, and
\* whether its cancellation was requested; the document handed to searchInFile
VARIABLES config, workspace, files, results, cancelled, document
\* the fields of the tree provider, and the nodes the view last asked for
VARIABLES currentResults, lastSearchTerm, categoryNodes
\* history: what currentResults held before filterByCategory, while that is
\* the last call made or clearFilters came right after it; null otherwise
VARIABLES beforeFilter
\* the commands issued so far, in the order issued, each search with the
\* state of its call of searchInWorkspace; the context key
\* informativeSearch:hasResults
VARIABLES commands, hasResults, searched
\* what pattern.exec(line) gives from each lastIndex, while findMatches runs
VARIABLES execs

analyzerVars ==
    <<lineText, columnIndex, languageId, context, category, allLines, lineNumber, items>>

searchVars == <<config, workspace, files, results, cancelled, document>>

treeVars == <<currentResults, lastSearchTerm, categoryNodes, beforeFilter>>

commandVars == <<commands, hasResults, searched>>

vars == <<lineText, columnIndex, searchTerm, languageId, context, category, pc,
          allLines, lineNumber, items, searchVars, treeVars, commandVars, execs>>

\* no search was made, and the tree provider is as constructed
NoSearch ==
    /\ config = DEFAULT_SEARCH_CONFIG /\ workspace = <<>> /\ files = <<>>
    /\ results = Null /\ cancelled = FALSE /\ document = Null

NoTree ==
    /\ currentResults = Null /\ lastSearchTerm = Null /\ categoryNodes = <<>>
    /\ beforeFilter = Null

\* the extension as activated: no command issued yet
NoCommands == commands = <<>> /\ hasResults = FALSE /\ searched = <<>>

\* findMatches is not running
NoLoop == execs = <<>>

\* the match is looked at on its own, as the only line of its file
SingleLine == allLines = <<lineText>> /\ lineNumber = 0

\* a caller about to classify a match, with the context it hands over
Init ==
    /\ lineText \in Lines
    /\ columnIndex \in 0..Len(lineText)
    /\ searchTerm \in SearchTerms
    /\ languageId \in Languages
    /\ context \in Contexts
    /\ category = NoCategory
    /\ pc = "call"
    /\ SingleLine /\ items = <<>>
    /\ NoSearch /\ NoTree /\ NoCommands /\ NoLoop

CategorizeMatch ==
    /\ pc = "call"
    /\ category' = categorizeMatch(lineText, columnIndex, searchTerm, context, languageId)
    /\ pc' = "done"
    /\ UNCHANGED <<lineText, columnIndex, searchTerm, languageId, context>>
    /\ UNCHANGED <<allLines, lineNumber, items, searchVars, treeVars, commandVars, execs>>

Next == CategorizeMatch

Spec == Init /\ [][Next]_vars

\* a caller about to ask for the context of a position of a line
InitDetector ==
    /\ lineText \in DetectorLines
    /\ columnIndex \in 0..Len(lineText)
    /\ searchTerm = ""
    /\ languageId = ""
    /\ context = NoContext
    /\ category = NoCategory
    /\ pc = "detect"
    /\ SingleLine /\ items = <<>>
    /\ NoSearch /\ NoTree /\ NoCommands /\ NoLoop

GetMatchContext ==
    /\ pc = "detect"
    /\ context' = getMatchContext(lineText, columnIndex, allLines, lineNumber)
    /\ pc' = "detected"
    /\ UNCHANGED <<lineText, columnIndex, searchTerm, languageId, category>>
    /\ UNCHANGED <<allLines, lineNumber, items, searchVars, treeVars, commandVars, execs>>

NextDetector == GetMatchContext

SpecDetector == InitDetector /\ [][NextDetector]_vars

\* a caller about to ask for the context of a line of a file of several lines
InitContext ==
    /\ allLines \in ContextFiles
    /\ lineNumber \in 0..(Len(allLines) - 1)
    /\ lineText = allLines[lineNumber + 1]
    /\ columnIndex = 0
    /\ searchTerm = ""
    /\ languageId = ""
    /\ context = NoContext
    /\ category = NoCategory
    /\ pc = "detect"
    /\ items = <<>>
    /\ NoSearch /\ NoTree /\ NoCommands /\ NoLoop

SpecContext == InitContext /\ [][NextDetector]_vars

\* getMatchContext about to hand a line to extractImportedItems
InitImports ==
    /\ lineText \in ImportLines
    /\ columnIndex = 0
    /\ searchTerm = ""
    /\ languageId = ""
    /\ context = NoContext
    /\ category = NoCategory
    /\ pc = "extract"
    /\ SingleLine /\ items = <<>>
    /\ NoSearch /\ NoTree /\ NoCommands /\ NoLoop

ExtractImportedItems ==
    /\ pc = "extract"
    /\ items' = extractImportedItems(lineText)
    /\ pc' = "extracted"
    /\ UNCHANGED <<lineText, columnIndex, searchTerm, languageId, context, category>>
    /\ UNCHANGED <<allLines, lineNumber, searchVars, treeVars, commandVars, execs>>

NextImports == ExtractImportedItems

SpecImports == InitImports /\ [][NextImports]_vars

\* no call of the analyzer is in progress
NoAnalysis ==
    /\ lineText = "" /\ columnIndex = 0 /\ languageId = ""
    /\ context = NoContext /\ category = NoCategory
    /\ SingleLine /\ items = <<>>

\* a command about to search for a term in a workspace, or in one of its files
InitSearch ==
    /\ searchTerm \in SearchQueries
    /\ config \in Configurations
    /\ workspace \in Workspaces
    /\ files = <<>>
    /\ results = Null
    /\ cancelled = FALSE
    /\ document = Null
    /\ pc = "search"
    /\ NoAnalysis /\ NoTree /\ NoCommands /\ NoLoop

\* searchInWorkspace up to its loop: no file found ends the search
StartSearchInWorkspace ==
    /\ pc = "search"
    /\ files' = findFilesToSearch(workspace)
    /\ results' = NewResults(searchTerm)
    /\ pc' = IF Len(files') = 0 THEN "searched workspace" ELSE "searching"
    /\ UNCHANGED <<searchTerm, config, workspace, cancelled, document, analyzerVars, treeVars, commandVars, execs>>

\* one turn of the loop, for the next file, unless cancellation was requested
SearchNextFile ==
    /\ pc = "searching"
    /\ ~cancelled
    /\ results.searchedFiles < Len(files)
    /\ \E fileResults \in {searchInDocument(files[results.searchedFiles + 1], searchTerm, config)} :
           results' = SearchedFile(results, fileResults, results.searchedFiles + 1, config)
    /\ UNCHANGED <<searchTerm, config, workspace, files, cancelled, pc, document, analyzerVars, treeVars, commandVars, execs>>

\* the user cancels while the search awaits a file
Cancel ==
    /\ pc = "searching"
    /\ ~cancelled
    /\ cancelled' = TRUE
    /\ UNCHANGED <<searchTerm, config, workspace, files, results, pc, document, analyzerVars, treeVars, commandVars, execs>>

\* the loop ends, after the last file or at the break, and the results are
\* returned
ReturnFromSearchInWorkspace ==
    /\ pc = "searching"
    /\ cancelled \/ results.searchedFiles = Len(files)
    /\ pc' = "searched workspace"
    /\ UNCHANGED <<searchTerm, config, workspace, files, results, cancelled, document, analyzerVars, treeVars, commandVars, execs>>

SearchInFile ==
    /\ pc = "search"
    /\ \E n \in 1..Len(workspace) :
           /\ document' = workspace[n]
           /\ results' = searchInFile(workspace[n], searchTerm, config)
    /\ pc' = "searched file"
    /\ UNCHANGED <<searchTerm, config, workspace, files, cancelled, analyzerVars, treeVars, commandVars, execs>>

NextSearch ==
    \/ StartSearchInWorkspace
    \/ SearchNextFile
    \/ Cancel
    \/ ReturnFromSearchInWorkspace
    \/ SearchInFile

SpecSearch == InitSearch /\ [][NextSearch]_vars

\* the tree provider as constructed
InitTree ==
    /\ searchTerm = ""
    /\ pc = "changed"
    /\ NoAnalysis /\ NoSearch /\ NoTree /\ NoCommands /\ NoLoop

UpdateResults ==
    /\ \E r \in TreeResults :
           /\ currentResults' = r
           /\ lastSearchTerm' = r.searchTerm
    /\ beforeFilter' = Null
    /\ pc' = "changed"
    /\ UNCHANGED <<searchTerm, categoryNodes, analyzerVars, searchVars, commandVars, execs>>

ClearResults ==
    /\ currentResults' = Null
    /\ lastSearchTerm' = Null
    /\ beforeFilter' = Null
    /\ pc' = "cleared"
    /\ UNCHANGED <<searchTerm, categoryNodes, analyzerVars, searchVars, commandVars, execs>>

FilterByCategory ==
    /\ \E categories \in FilterLists :
           currentResults' = filterByCategory(currentResults, categories)
    /\ beforeFilter' = currentResults
    /\ pc' = "filtered"
    /\ UNCHANGED <<searchTerm, lastSearchTerm, categoryNodes, analyzerVars, searchVars, commandVars, execs>>

\* clearFilters fires the change event and nothing else; pc tells whether it
\* was called right after filterByCategory
ClearFilters ==
    /\ pc' = IF pc = "filtered" THEN "filters cleared" ELSE "changed"
    /\ beforeFilter' = IF pc = "filtered" THEN beforeFilter ELSE Null
    /\ UNCHANGED <<searchTerm, currentResults, lastSearchTerm, categoryNodes>>
    /\ UNCHANGED <<analyzerVars, searchVars, commandVars, execs>>

\* refresh, expandAll and collapseAll fire the change event and nothing else
Refresh ==
    /\ pc' = "changed"
    /\ beforeFilter' = Null
    /\ UNCHANGED <<searchTerm, currentResults, lastSearchTerm, categoryNodes>>
    /\ UNCHANGED <<analyzerVars, searchVars, commandVars, execs>>

ExpandAll ==
    /\ pc' = "changed"
    /\ beforeFilter' = Null
    /\ UNCHANGED <<searchTerm, currentResults, lastSearchTerm, categoryNodes>>
    /\ UNCHANGED <<analyzerVars, searchVars, commandVars, execs>>

CollapseAll ==
    /\ pc' = "changed"
    /\ beforeFilter' = Null
    /\ UNCHANGED <<searchTerm, currentResults, lastSearchTerm, categoryNodes>>
    /\ UNCHANGED <<analyzerVars, searchVars, commandVars, execs>>

\* the view asks for the children of the root
GetChildren ==
    /\ categoryNodes' = getChildren(currentResults)
    /\ pc' = IF pc = "cleared" THEN "shown cleared" ELSE "shown"
    /\ beforeFilter' = Null
    /\ UNCHANGED <<searchTerm, currentResults, lastSearchTerm, analyzerVars, searchVars, commandVars, execs>>

NextTree ==
    \/ UpdateResults
    \/ ClearResults
    \/ FilterByCategory
    \/ ClearFilters
    \/ Refresh
    \/ ExpandAll
    \/ CollapseAll
    \/ GetChildren

SpecTree == InitTree /\ [][NextTree]_vars

(***************************************************************************)
(* The extension (extension.ts): the search and clearResults commands.     *)
(* performWorkspaceSearch awaits searchInWorkspace, which awaits each      *)
(* file: other commands run while a search waits, so several searches can  *)
(* be under way at once.                                                   *)
(***************************************************************************)
\* the most commands issued in one behaviour
MaxCommands == 2

\* the search terms of the commands
CommandQueries == {"foo", "("}

FileNamed(fsPath) == CHOOSE file \in WorkspaceFiles : file.fsPath = fsPath

CommandWorkspaces == {<<FileNamed("b.tsx"), FileNamed("a.js")>>}

\* a call of performWorkspaceSearch that has reached the loop of
\* searchInWorkspace; progress lists the filesSearched handed to
\* progressCallback; failed and returned are history: the turns of the loop
\* that ended in its catch, and what searchInDocument gave in each turn
StartedSearch(term, found) ==
    [kind |-> "search", searchTerm |-> term, files |-> found,
     results |-> NewResults(term), cancelled |-> FALSE,
     progress |-> <<>>, failed |-> {}, returned |-> <<>>, pc |-> "searching"]

ClearCommand == [kind |-> "clear"]

\* what searchInDocument gives for each query and each file of the workspaces
\* under a configuration; InitCommands keeps it in searched, as neither the
\* files nor the configuration change while the commands run
CommandFiles == UNION {{w[n] : n \in 1..Len(w)} : w \in CommandWorkspaces}

SearchedDocuments(settings) ==
    {[file |-> file, searchTerm |-> term,
      results |-> searchInDocument(file, term, settings)] :
         file \in CommandFiles, term \in CommandQueries}

SearchedDocument(file, term) ==
    (CHOOSE d \in searched : d.file = file /\ d.searchTerm = term).results

Searching(i) ==
    /\ commands[i].kind = "search"
    /\ commands[i].pc = "searching"

\* mutant: the token is not read after searchInWorkspace has returned
AfterSearch_TokenIgnored(tree, search) ==
    [currentResults |-> search.results,
     lastSearchTerm |-> search.results.searchTerm,
     hasResults |-> search.results.totalMatches > 0]

\* what performWorkspaceSearch does to the tree provider and to hasResults
\* once searchInWorkspace has returned results: nothing when the token is
\* set
AfterSearch(tree, search) ==
    IF search.cancelled THEN tree
    ELSE [currentResults |-> search.results,
          lastSearchTerm |-> search.results.searchTerm,
          hasResults |-> search.results.totalMatches > 0]

InitCommands ==
    /\ searchTerm = ""
    /\ pc = "commands"
    /\ NoAnalysis /\ NoTree
    /\ commands = <<>> /\ hasResults = FALSE
    /\ config = DEFAULT_SEARCH_CONFIG
    /\ searched = SearchedDocuments(DEFAULT_SEARCH_CONFIG)
    /\ NoLoop
    /\ workspace \in CommandWorkspaces
    /\ files = <<>> /\ results = Null /\ cancelled = FALSE /\ document = Null

\* the search command, up to the first await of searchInWorkspace
SearchCommand ==
    /\ Len(commands) < MaxCommands
    /\ \E term \in CommandQueries :
           commands' = Append(commands, StartedSearch(term, findFilesToSearch(workspace)))
    /\ UNCHANGED <<searchTerm, pc, hasResults, searched, analyzerVars, searchVars, treeVars, execs>>

\* one turn of the loop of the i-th command's search; opening the file may
\* fail, and so may its analysis
SearchFile(i) ==
    /\ Searching(i)
    /\ ~commands[i].cancelled
    /\ commands[i].results.searchedFiles < Len(commands[i].files)
    /\ \E n \in {commands[i].results.searchedFiles + 1} :
       \E fileResults \in {Thrown, SearchedDocument(commands[i].files[n],
                                                     commands[i].searchTerm)} :
           commands' = [commands EXCEPT
                           ![i].results = SearchedFile(@, fileResults, n, config),
                           ![i].progress = Append(@, n),
                           ![i].failed = IF fileResults = Thrown THEN @ \cup {n} ELSE @,
                           ![i].returned = Append(@, fileResults)]
    /\ UNCHANGED <<searchTerm, pc, hasResults, searched, analyzerVars, searchVars, treeVars, execs>>

\* the user cancels the i-th command's search from its progress notification
CancelSearch(i) ==
    /\ Searching(i)
    /\ ~commands[i].cancelled
    /\ commands' = [commands EXCEPT ![i].cancelled = TRUE]
    /\ UNCHANGED <<searchTerm, pc, hasResults, searched, analyzerVars, searchVars, treeVars, execs>>

\* searchInWorkspace returns and performWorkspaceSearch goes on
FinishSearch(i) ==
    /\ Searching(i)
    /\ \/ commands[i].cancelled
       \/ commands[i].results.searchedFiles = Len(commands[i].files)
    /\ commands' = [commands EXCEPT ![i].pc = "done"]
    /\ \E after \in {AfterSearch([currentResults |-> currentResults,
                                  lastSearchTerm |-> lastSearchTerm,
                                  hasResults |-> hasResults], commands[i])} :
           /\ currentResults' = after.currentResults
           /\ lastSearchTerm' = after.lastSearchTerm
           /\ hasResults' = after.hasResults
    /\ UNCHANGED <<searchTerm, pc, categoryNodes, beforeFilter, searched, analyzerVars, searchVars, execs>>

\* the clearResults command
ClearResultsCommand ==
    /\ Len(commands) < MaxCommands
    /\ commands' = Append(commands, ClearCommand)
    /\ currentResults' = Null
    /\ lastSearchTerm' = Null
    /\ hasResults' = FALSE
    /\ UNCHANGED <<searchTerm, pc, categoryNodes, beforeFilter, searched, analyzerVars, searchVars, execs>>

NextCommands ==
    \/ SearchCommand
    \/ \E i \in 1..Len(commands) : SearchFile(i)
    \/ \E i \in 1..Len(commands) : CancelSearch(i)
    \/ \E i \in 1..Len(commands) : FinishSearch(i)
    \/ ClearResultsCommand

SpecCommands == InitCommands /\ [][NextCommands]_vars

(***************************************************************************)
(* findMatches turn by turn: lineText is the line, searchTerm and config   *)
(* give the pattern, columnIndex is pattern.lastIndex and items the        *)
(* matches pushed so far.  exec depends on the pattern, the line and       *)
(* lastIndex only, so what it gives from each lastIndex is kept in execs.  *)
(***************************************************************************)
FindLines == {"", "o", "foo", "fo of", "Foo.foo"}

\* search terms, several of them patterns that match the empty string
FindTerms == {"", "o", "o*", "x?", "(o|f)*", "^", "$", "o|", "fo+", "(", "."}

FindConfigs ==
    {[DEFAULT_SEARCH_CONFIG EXCEPT !.useRegex = useRegex, !.caseSensitive = caseSensitive] :
         useRegex \in BOOLEAN, caseSensitive \in BOOLEAN}

InitFindMatches ==
    /\ lineText \in FindLines
    /\ searchTerm \in FindTerms
    /\ config \in FindConfigs
    /\ columnIndex = 0
    /\ items = <<>>
    /\ pc = "findMatches"
    /\ languageId = "" /\ context = NoContext /\ category = NoCategory
    /\ SingleLine
    /\ workspace = <<>> /\ files = <<>> /\ results = Null
    /\ cancelled = FALSE /\ document = Null
    /\ NoTree /\ NoCommands
    /\ \E pattern \in {createSearchPattern(searchTerm, config)} :
           execs = [lastIndex \in 0..(Len(lineText) + 1) |->
                       exec(pattern, lineText, lastIndex, pattern.ic)]

\* a turn of the loop: exec found a match
PushMatch ==
    /\ pc = "findMatches"
    /\ execs[columnIndex].found
    /\ items' = Append(items, [index |-> execs[columnIndex].index,
                                match |-> execs[columnIndex].text])
    /\ columnIndex' = lastIndexAfter(execs[columnIndex])
    /\ UNCHANGED <<lineText, searchTerm, languageId, context, category, pc>>
    /\ UNCHANGED <<allLines, lineNumber, searchVars, treeVars, commandVars, execs>>

\* exec found nothing more: it sets lastIndex to 0, and matches is returned
ReturnMatches ==
    /\ pc = "findMatches"
    /\ ~execs[columnIndex].found
    /\ columnIndex' = 0
    /\ pc' = "found matches"
    /\ UNCHANGED <<lineText, searchTerm, languageId, context, category, items>>
    /\ UNCHANGED <<allLines, lineNumber, searchVars, treeVars, commandVars, execs>>

NextFindMatches == PushMatch \/ ReturnMatches

SpecFindMatches == InitFindMatches /\ [][NextFindMatches]_vars

\* the loop holds no await: once called it takes its turns
FairFindMatches == SpecFindMatches /\ WF_vars(NextFindMatches)

(***************************************************************************)
(* The claims.                                                             *)
(***************************************************************************)
Classified == pc = "done"

Detected == pc = "detected"

TrimmedLine == trim(lineText)

BeforeMatch == trim(substring(lineText, 0, columnIndex))

AfterMatch == trim(substringFrom(lineText, columnIndex + Len(searchTerm)))

HasMetacharacter(t) == includes(t, "(") \/ includes(t, "[")

\* C1: categorizeMatch completes normally for every input, search terms with
\* regex metacharacters and the component languages included, and returns one
\* of the 14 UsageCategory values; it never throws.
C1_AlwaysReturnsACategory == Classified => category \in UsageCategory

\* the 13 tests in the order the claim gives them, each with its category
ClaimedTests ==
    LET component == isComponentUsage(TrimmedLine, searchTerm, languageId)
    IN  << <<context.isInComment, COMMENT>>,
           <<context.isInString, STRING_LITERAL>>,
           <<isImportStatement(TrimmedLine, searchTerm), IMPORT>>,
           <<isExportStatement(TrimmedLine, searchTerm), EXPORT>>,
           <<isFunctionDefinition(TrimmedLine, searchTerm, BeforeMatch, AfterMatch, languageId),
             FUNCTION_DEFINITION>>,
           <<isVariableDeclaration(TrimmedLine, searchTerm, BeforeMatch, AfterMatch, languageId),
             VARIABLE_DECLARATION>>,
           <<isFunctionCall(TrimmedLine, searchTerm, AfterMatch), FUNCTION_CALL>>,
           <<~component.threw /\ component.value, COMPONENT_USAGE>>,
           <<isTypeDefinition(TrimmedLine, searchTerm, BeforeMatch, languageId), TYPE_DEFINITION>>,
           <<isInterfaceDefinition(TrimmedLine, searchTerm, BeforeMatch, languageId),
             INTERFACE_DEFINITION>>,
           <<isClassDefinition(TrimmedLine, searchTerm, BeforeMatch, languageId), CLASS_DEFINITION>>,
           <<isPropertyAccess(TrimmedLine, searchTerm, BeforeMatch, AfterMatch), PROPERTY_ACCESS>>,
           <<isVariableUsage(TrimmedLine, searchTerm, BeforeMatch, AfterMatch), VARIABLE_USAGE>> >>

Succeeding(tests) == {n \in 1..Len(tests) : tests[n][1]}

FirstSucceeding(tests) ==
    IF Succeeding(tests) = {} THEN OTHER_CATEGORY ELSE tests[MinOf(Succeeding(tests))][2]

\* C2: the result of categorizeMatch is the category of the first test that
\* succeeds in the order comment, string-literal, import, export,
\* function-definition, variable-declaration, function-call, component-usage,
\* type-definition, interface-definition, class-definition, property-access,
\* variable-usage, and OTHER exactly when none of the 13 succeeds.
C2_FirstSucceedingTestWins == Classified => category = FirstSucceeding(ClaimedTests)

\* C3: if context.isInComment is true the result is COMMENT, whatever the
\* line, the column, the search term, the language and context.isInString.
C3_CommentFlagGivesComment == (Classified /\ context.isInComment) => category = COMMENT

\* C3 witness: a classified import line, both flags set, a search term with a
\* metacharacter and a component language
C3_Witness ==
    /\ Classified /\ context.isInComment /\ context.isInString
    /\ isImportStatement(TrimmedLine, searchTerm)
    /\ HasMetacharacter(searchTerm) /\ languageId = "vue"
    /\ category = COMMENT

\* C4: if context.isInComment is false and context.isInString is true the
\* result is STRING_LITERAL, also on an import or export statement.
C4_StringFlagGivesStringLiteral ==
    (Classified /\ ~context.isInComment /\ context.isInString) => category = STRING_LITERAL

\* C4 witness: a classified export statement with only the string flag set
C4_Witness ==
    /\ Classified /\ ~context.isInComment /\ context.isInString
    /\ isExportStatement(TrimmedLine, searchTerm)
    /\ category = STRING_LITERAL

\* C5: every branch of categorizeMatch is reachable: each of the 14
\* categories, FUNCTION_CALL included, is returned for some input.
C5_EveryCategoryIsReturned ==
    Classified =>
        \A c \in UsageCategory :
            \E l \in Lines, t \in SearchTerms, g \in Languages, ctx \in Contexts :
                \E col \in 0..Len(l) : categorizeMatch(l, col, t, ctx, g) = c

\* C6: with both flags false, on a line that is no import and no export
\* statement, a match followed (after trimming) by `(` is a
\* FUNCTION_DEFINITION in every language, and never a FUNCTION_CALL.
C6_ParenthesisGivesFunctionDefinition ==
    ( /\ Classified /\ ~context.isInComment /\ ~context.isInString
      /\ startsWith(AfterMatch, "(")
      /\ ~isImportStatement(TrimmedLine, searchTerm)
      /\ ~isExportStatement(TrimmedLine, searchTerm) )
    => category = FUNCTION_DEFINITION

\* C6 witness: a call, `doThing(1)`, in a Python file, where no definition
\* pattern matches the line
C6_Witness ==
    /\ Classified /\ context = NoContext
    /\ lineText = "doThing(1)" /\ columnIndex = 0 /\ searchTerm = "doThing"
    /\ languageId = "python"
    /\ category = FUNCTION_DEFINITION

\* C7: for javascript and both flags false, the match `value` of the line
\* `const total = x.value`, which a `.` precedes, is a PROPERTY_ACCESS.
C7_PropertyOfConstLine ==
    ( /\ Classified /\ context = NoContext
      /\ lineText = "const total = x.value" /\ columnIndex = 16 /\ searchTerm = "value"
      /\ languageId = "javascript" )
    => category = PROPERTY_ACCESS

Odd(n) == n % 2 = 1

\* the `/* ... */` spans of a line that the column lies in: one that opens
\* (its `/*` ends) at or before the column and whose closing `*/`, the first
\* after its opening, starts at or after the column
InBlockComment(line, column) ==
    \E o \in Occurrences(line, "/*") :
        LET closings == {c \in Occurrences(line, "*/") : c >= o + 2}
        IN  o + 2 <= column /\ closings # {} /\ column <= MinOf(closings)

ClaimedInComment(line, column) ==
    \/ \E i \in Occurrences(line, "//") : i <= column
    \/ InBlockComment(line, column)
    \/ startsWith(trim(line), "#")

\* C8: isInComment(line, column) is true if and only if a `//` starts at an
\* index <= column, or the column lies within a `/* ... */` span that opens
\* before it and closes after it, or the trimmed line begins with `#`; a
\* column between two block comments, outside both, is in no such span.
C8_IsInCommentIff ==
    Detected => (context.isInComment <=> ClaimedInComment(lineText, columnIndex))

\* the quotes q strictly before the column that no backslash precedes
UnescapedBefore(line, column, q) ==
    {i \in 0..(Min(column, Len(line)) - 1) : charAt(line, i) = q /\ charAt(line, i - 1) # "\\"}

ClaimedInString(line, column) ==
    \/ Odd(Cardinality(UnescapedBefore(line, column, "'")))
    \/ Odd(Cardinality(UnescapedBefore(line, column, "\"")))
    \/ Odd(Cardinality(UnescapedBefore(line, column, Backtick)))

\* C9: isInString(line, column) is true if and only if, strictly before the
\* column, the unescaped single quotes, or double quotes, or backticks are
\* odd in number; the three counts are independent, and column 0 gives false.
C9_IsInStringIsQuoteParity ==
    Detected =>
        /\ context.isInString <=> ClaimedInString(lineText, columnIndex)
        /\ columnIndex = 0 => ~context.isInString

\* C9 witness: two kinds of quote are odd at once, an escaped quote was
\* skipped, and the position is reported inside a string
C9_Witness ==
    /\ Detected /\ context.isInString
    /\ Odd(Cardinality(UnescapedBefore(lineText, columnIndex, "'")))
    /\ Odd(Cardinality(UnescapedBefore(lineText, columnIndex, "\"")))
    /\ includes(substring(lineText, 0, columnIndex), "\\'")

LiteralLine == "const x = 'a,b';"

\* C10 as claimed: on the line `const x = 'a,b';` isInString is true at
\* column 15 and false at column 5.
C10_AsClaimed ==
    (Detected /\ lineText = LiteralLine) =>
        /\ columnIndex = 15 => context.isInString
        /\ columnIndex = 5 => ~context.isInString

\* C10 amended: on the line `const x = 'a,b';` isInString is false at
\* column 15, the `;` after the closing quote, and false at column 5; it is
\* true exactly at the columns 11 to 14, from the first character of the
\* literal to its closing quote.
C10_Amended ==
    (Detected /\ lineText = LiteralLine) =>
        /\ columnIndex = 15 => ~context.isInString
        /\ columnIndex = 5 => ~context.isInString
        /\ context.isInString <=> columnIndex \in 11..14

\* C10 witness: column 15 of the line, after its context was built
C10_Witness == Detected /\ lineText = LiteralLine /\ columnIndex = 15 /\ ~context.isInString

Extracted == pc = "extracted"

\* the longest run of word characters of the line from position i on
RECURSIVE WordAt(_, _)
WordAt(line, i) ==
    IF charAt(line, i) \in WordChars THEN charAt(line, i) \o WordAt(line, i + 1) ELSE ""

\* the first position from i on that holds no white space
RECURSIVE SkipSpace(_, _)
SkipSpace(line, i) == IF charAt(line, i) \in WhiteSpace THEN SkipSpace(line, i + 1) ELSE i

\* the word that follows the first occurrence of a keyword and white space
WordAfter(line, keyword) ==
    WordAt(line, SkipSpace(line, indexOf(line, keyword) + Len(keyword)))

\* the name the claim gives a trimmed line: that of `function NAME(`, else
\* that of `const|let|var NAME = ... =>`, else that of `NAME(` when the line
\* holds none of if, for, while
ClaimedFunctionName(line) ==
    IF test(functionPattern, line) THEN Defined(WordAfter(line, "function"))
    ELSE IF test(arrowPattern, line) THEN Defined(WordAfter(line, WordAt(line, 0)))
    ELSE IF /\ test(methodPattern, line)
            /\ ~\E w \in {"if", "for", "while"} : includes(line, w)
    THEN Defined(WordAt(line, 0))
    ELSE Undefined

\* the name of the nearest line of 0..n that Name gives one, if any
NearestName(lines, n, Name(_)) ==
    LET named == {i \in 0..n : Name(trim(lines[i + 1])) # Undefined}
    IN  IF named = {} THEN Undefined ELSE Name(trim(lines[MaxOf(named) + 1]))

\* C11: getFunctionContext(allLines, n) returns the name captured on the
\* nearest line of n, n-1, ..., 0 that matches the function pattern, else the
\* arrow pattern, else the method pattern without if, for, while; a nearer
\* line wins whatever pattern matched it, and the result is none when no
\* line of 0..n matches.
C11_NearestFunctionLineWins ==
    Detected => context.functionName = NearestName(allLines, lineNumber, ClaimedFunctionName)

\* C11 witness: a method line, nearer than a function line, gives the name,
\* and the call `notify(x)` on the line of the match, which holds `if`, none
C11_Witness ==
    /\ Detected
    /\ allLines = <<"function foo() {", "  method() {}", "notify(x)">>
    /\ lineNumber = 2
    /\ context.functionName = Defined("method")

ClaimedClassName(line) ==
    IF test(classPattern, line) THEN Defined(WordAfter(line, "class")) ELSE Undefined

\* C12: getClassContext(allLines, n) returns the class name declared on the
\* nearest line at or before n whose trimmed text starts with an optional
\* `export`, an optional `abstract`, then `class NAME`, and none when no line
\* of 0..n has that shape.
C12_NearestClassLineWins ==
    Detected => context.className = NearestName(allLines, lineNumber, ClaimedClassName)

\* C12 witness: the example of the claim, `class Bar {` one line above
C12_Witness ==
    /\ Detected
    /\ allLines = <<"class Bar {", "  method() {}", "}">>
    /\ lineNumber = 1
    /\ context.className = Defined("Bar")

\* C13: extractImportedItems applies one of its three cases: with named
\* import braces, the names between them, each trimmed, in source order;
\* otherwise the one-element sequence of `import X from` or of
\* `import * as X from`, and the empty sequence when none applies, so that
\* without braces the result never has more than one element.
C13_OneCasePerInvocation ==
    Extracted =>
        IF test(namedImportPattern, lineText)
        THEN items = TrimEach(split(GroupText(match(namedImportPattern, lineText), 1), ","))
        ELSE IF test(defaultImportPattern, lineText) \/ test(namespaceImportPattern, lineText)
        THEN Len(items) = 1
        ELSE items = <<>>

\* C14: for 0 <= lineNumber < len, surroundingLines is the slice
\* allLines[max(0, lineNumber-2) .. min(len, lineNumber+3)): it holds the
\* line of the match, between 1 and 5 lines in file order, clipped at the
\* start and the end of the file.
C14_SurroundingLinesAreTheWindow ==
    Detected =>
        LET lo == Max(0, lineNumber - 2)
            hi == Min(Len(allLines), lineNumber + 3)
        IN  /\ context.surroundingLines = [k \in 1..(hi - lo) |-> allLines[lo + k]]
            /\ Len(context.surroundingLines) \in 1..5
            /\ context.surroundingLines[lineNumber - lo + 1] = lineText

\* C14 witness: a window of five lines that neither end of the file clips
C14_Witness ==
    /\ Detected
    /\ allLines = <<"a", "b", "b", "a", "a", "b">>
    /\ lineNumber = 3
    /\ context.surroundingLines = <<"b", "b", "a", "a", "b">>

\* C15: the importedItems field is present if and only if the trimmed line
\* matches an import-statement pattern, the test that makes categorizeMatch
\* return IMPORT when both context flags are false.
C15_ImportedItemsIffImport ==
    Detected =>
        /\ (context.importedItems # Undefined) <=> some(importPatterns, trim(lineText))
        /\ (context.importedItems # Undefined)
               <=> (categorizeMatch(lineText, columnIndex, searchTerm, NoContext, languageId)
                       = IMPORT)

\* C15 witness: an indented import line, whose items were extracted
C15_Witness ==
    /\ Detected
    /\ lineText = "  import x from 'm'"
    /\ context.importedItems = Defined(<<"x">>)

\* the language identifiers the tests of categorizeMatch name
RecognizedLanguages ==
    {"python", "java", "csharp", "typescript", "typescriptreact", "javascriptreact", "vue"}

\* C17: for every languageId other than python, java, csharp, typescript,
\* typescriptreact, javascriptreact and vue, the empty string included,
\* categorizeMatch returns what it returns for `javascript` on the same
\* lineText, columnIndex, searchTerm and context.
C17_UnrecognizedLanguageIsJavaScript ==
    (Classified /\ languageId \notin RecognizedLanguages) =>
        category = categorizeMatch(lineText, columnIndex, searchTerm, context, "javascript")

\* C17 witness: a call with an unrecognized languageId whose result is the
\* JavaScript one where the Python and the TypeScript results differ from it
C17_Witness ==
    /\ Classified
    /\ languageId = "plaintext"
    /\ category = categorizeMatch(lineText, columnIndex, searchTerm, context, "javascript")
    /\ category # categorizeMatch(lineText, columnIndex, searchTerm, context, "python")

Searched == pc \in {"searched workspace", "searched file"} /\ results # Thrown

\* the text that findMatches found at a column of a line ("" when none)
MatchedAt(line, column) ==
    LET At(e) == e.index = column
        Text(found) == IF found = <<>> THEN "" ELSE found[1].match
    IN  Text(SelectSeq(findMatches(line, createSearchPattern(searchTerm, config), config), At))

\* C18: for every match found by the search loop, the searchTerm handed to
\* categorizeMatch, and used for the end of the match's range (column +
\* length), is the raw text matched at that column of the line, also when
\* the search is case-insensitive or uses a regular expression.
C18_SearchTermIsTheMatchedText ==
    Searched =>
        \A k \in 1..Len(AllMatches(results, 1)) :
            LET Raw(m) ==
                    /\ m.searchTerm = MatchedAt(m.lineText, m.column)
                    /\ m.range.end.character = m.column + Len(MatchedAt(m.lineText, m.column))
            IN  Raw(AllMatches(results, 1)[k])

\* the display order the claim gives
DisplayOrder ==
    << IMPORT, EXPORT, FUNCTION_DEFINITION, FUNCTION_CALL, VARIABLE_DECLARATION,
       VARIABLE_USAGE, COMPONENT_USAGE, TYPE_DEFINITION, INTERFACE_DEFINITION,
       CLASS_DEFINITION, PROPERTY_ACCESS, COMMENT, STRING_LITERAL, OTHER_CATEGORY >>

Shown == pc \in {"shown", "shown cleared"}

\* the category holds at least one match of the current results
HoldsMatches(c) ==
    /\ currentResults # Null
    /\ MapHas(currentResults.categories, c)
    /\ Len(currentResults.categories.at[c]) > 0

\* C19: CATEGORY_INFO gives the 14 categories pairwise distinct priorities
\* in the order import < export < function-definition < function-call <
\* variable-declaration < variable-usage < component-usage < type-definition
\* < interface-definition < class-definition < property-access < comment <
\* string-literal < other, and the tree root lists exactly the categories
\* holding at least one match, in ascending priority.
C19_RootListsCategoriesByPriority ==
    /\ {DisplayOrder[i] : i \in 1..Len(DisplayOrder)} = UsageCategory
    /\ DOMAIN CATEGORY_INFO = UsageCategory
    /\ \A i, j \in 1..Len(DisplayOrder) :
           i < j => CATEGORY_INFO[DisplayOrder[i]].priority
                       < CATEGORY_INFO[DisplayOrder[j]].priority
    /\ Shown =>
           [k \in 1..Len(categoryNodes) |-> categoryNodes[k].category]
               = SelectSeq(DisplayOrder, HoldsMatches)

\* C19 witness: results filtered to the keys other, import, in that order,
\* are listed as import, other
C19_Witness ==
    /\ Shown
    /\ currentResults # Null
    /\ currentResults.categories.keys = <<OTHER_CATEGORY, IMPORT>>
    /\ Len(categoryNodes) = 2
    /\ categoryNodes[1].category = IMPORT
    /\ categoryNodes[2].category = OTHER_CATEGORY

\* C20: in every CategorizedResults returned by searchInWorkspace or by
\* searchInFile, each category holds at most config.maxResultsPerCategory
\* matches, whatever the number of files and matches.
C20_AtMostMaxResultsPerCategory ==
    Searched =>
        \A c \in DOMAIN results.categories.at :
            Len(results.categories.at[c]) <= config.maxResultsPerCategory

\* the lines of the document handed to searchInFile, and its search pattern
DocumentLines == split(document.text, "\n")

DocumentPattern == createSearchPattern(searchTerm, config)

\* the match found at a column of a line is listed under a category
ListedUnder(c, n, column) ==
    \E k \in 1..Len(results.categories.at[c]) :
        /\ results.categories.at[c][k].line = n
        /\ results.categories.at[c][k].column = column

\* the matches of the n-th line (0-based) of the document
FoundOn(n) == findMatches(DocumentLines[n + 1], DocumentPattern, config)

InComment(n, column) ==
    getMatchContext(DocumentLines[n + 1], column, DocumentLines, n).isInComment

\* C21: with includeComments = true, every match whose context has
\* isInComment = true is kept by analyzeMatch and is listed under COMMENT in
\* the results of searchInFile, whatever includeStringLiterals and the
\* isInString flag of the match are.
C21_CommentMatchesAreKept ==
    (pc = "searched file" /\ results # Thrown /\ config.includeComments) =>
        \A n \in 0..(Len(DocumentLines) - 1) :
            \A j \in 1..Len(FoundOn(n)) :
                InComment(n, FoundOn(n)[j].index)
                    => ListedUnder(COMMENT, n, FoundOn(n)[j].index)

\* C22: clearFilters resets the filters: called right after
\* filterByCategory(C), it leaves the tree provider with the results (the
\* category map and totalMatches) it held before that filter was applied,
\* for any list C of categories.
C22_ClearFiltersRestoresTheResults ==
    pc = "filters cleared" => currentResults = beforeFilter

\* C23: once the cancellation token of a search is set, its loop opens no
\* further file (its results and its progress reports stay as they are),
\* and when searchInWorkspace has returned performWorkspaceSearch neither
\* calls updateResults nor sets hasResults: the step that ends the search
\* leaves the tree provider's results and last search term as they were.
C23_CancelledSearchLeavesTheTree ==
    [][\A i \in 1..Len(commands) :
           (Searching(i) /\ commands[i].cancelled) =>
               /\ commands'[i].results = commands[i].results
               /\ commands'[i].progress = commands[i].progress
               /\ commands'[i].pc = "done" =>
                      UNCHANGED <<currentResults, lastSearchTerm, hasResults>>]_vars

\* C23 witness: a search cancelled before its last file has ended, and the
\* tree holds the results of the search issued before it
C23_Witness ==
    /\ Len(commands) = 2
    /\ commands[1].kind = "search" /\ commands[1].pc = "done"
    /\ commands[2].kind = "search" /\ commands[2].pc = "done"
    /\ ~commands[1].cancelled
    /\ commands[2].cancelled
    /\ commands[2].results.searchedFiles = 1
    /\ Len(commands[2].files) = 2
    /\ commands[2].searchTerm # commands[1].searchTerm
    /\ currentResults = commands[1].results
    /\ lastSearchTerm = commands[1].searchTerm
    /\ hasResults

\* every match of the found list is among the matches of the results
AllListed(found, listed) ==
    \A k \in 1..Len(found) : \E j \in 1..Len(listed) : listed[j] = found[k]

\* what a search whose n-th file was handled shows of that file: nothing
\* when the turn failed, all its matches otherwise (below the limit of
\* maxResultsPerCategory)
HandledFile(search, n) ==
    LET FromFile(m) == m.file = search.files[n].fsPath
        Listed(listed) ==
            IF n \in search.failed THEN SelectSeq(listed, FromFile) = <<>>
            ELSE AllListed(AllMatches(search.returned[n], 1), listed)
    IN  Listed(AllMatches(search.results, 1))

\* C24: a file whose opening or analysis fails is caught for that file
\* only: it adds no match, it is counted once in searchedFiles and reported
\* once through progressCallback, the files after it are still searched,
\* the call returns results, and without cancellation searchedFiles ends
\* equal to the number of files found.
C24_FileFailuresAreCaught ==
    \A i \in 1..Len(commands) :
        commands[i].kind = "search" =>
            /\ commands[i].results # Thrown
            /\ commands[i].results.searchedFiles <= Len(commands[i].files)
            /\ commands[i].progress
                   = [n \in 1..commands[i].results.searchedFiles |-> n]
            /\ \A n \in 1..commands[i].results.searchedFiles :
                   HandledFile(commands[i], n)
            /\ (commands[i].pc = "done" /\ ~commands[i].cancelled)
                   => commands[i].results.searchedFiles = Len(commands[i].files)

\* C24 witness: the analysis of the first file threw, the second file gave
\* its matches, and the search ended with both files counted
C24_Witness ==
    /\ Len(commands) >= 1
    /\ commands[1].kind = "search" /\ commands[1].pc = "done"
    /\ commands[1].searchTerm = "("
    /\ commands[1].failed = {1}
    /\ commands[1].progress = <<1, 2>>
    /\ commands[1].results.searchedFiles = 2
    /\ commands[1].results.totalMatches = 2
    /\ currentResults = commands[1].results

\* the indices of the matches found so far, each above the one before it
IncreasingIndices ==
    \A k \in 1..Len(items) :
        /\ items[k].index \in 0..Len(lineText)
        /\ k > 1 => items[k - 1].index < items[k].index

\* C25: findMatches terminates for every line and pattern, patterns that
\* match the empty string included, and the matches it returns have
\* strictly increasing indices, so that no index occurs twice.
C25_FindMatchesTerminatesInOrder ==
    /\ [](pc \in {"findMatches", "found matches"} => IncreasingIndices)
    /\ <>(pc = "found matches")

\* C25 witness: a pattern that matches the empty string was run over a line
\* and returned a match of width zero after a match of width one
C25_Witness ==
    /\ pc = "found matches"
    /\ searchTerm = "o*" /\ config.useRegex
    /\ lineText = "fo of"
    /\ Len(items) >= 2
    /\ items[1].match = "" /\ items[2].match = "o"
    /\ items = findMatches(lineText, createSearchPattern(searchTerm, config), config)

\* the trimmed line starts with `export` and whitespace or `{`, or with
\* `module.exports =`
ExportLine ==
    \/ /\ startsWith(TrimmedLine, "export")
       /\ charAt(TrimmedLine, 6) \in WhiteSpace \cup {"{"}
    \/ startsWith(TrimmedLine, "module.exports =")

\* C26: a match on an export line, outside comments and strings, is
\* classified EXPORT whatever its position, the search term and the
\* language, so that `export class`, `export type`, `export interface` and
\* `export function` lines never give a definition category.
C26_ExportLinesAreExports ==
    (Classified /\ ~context.isInComment /\ ~context.isInString /\ ExportLine)
        => category = EXPORT

\* C26 witness: the name of an exported class was classified, in TypeScript
C26_Witness ==
    /\ Classified
    /\ lineText = "export class x {" /\ columnIndex = 13 /\ searchTerm = "x"
    /\ languageId = "typescript"
    /\ ~context.isInComment /\ ~context.isInString
    /\ category = EXPORT

\* the trimmed text before the match is a bare declaration keyword, or ends
\* with `[`
KeywordOrBracketBefore ==
    \/ BeforeMatch \in {"const", "let", "var", "function"}
    \/ endsWith(BeforeMatch, "[")

\* one of the twelve tests before the variable-usage test succeeds
EarlierTestSucceeds ==
    \/ context.isInComment
    \/ context.isInString
    \/ isImportStatement(TrimmedLine, searchTerm)
    \/ isExportStatement(TrimmedLine, searchTerm)
    \/ isFunctionDefinition(TrimmedLine, searchTerm, BeforeMatch, AfterMatch, languageId)
    \/ isVariableDeclaration(TrimmedLine, searchTerm, BeforeMatch, AfterMatch, languageId)
    \/ isFunctionCall(TrimmedLine, searchTerm, AfterMatch)
    \/ isComponentUsage(TrimmedLine, searchTerm, languageId).value
    \/ isTypeDefinition(TrimmedLine, searchTerm, BeforeMatch, languageId)
    \/ isInterfaceDefinition(TrimmedLine, searchTerm, BeforeMatch, languageId)
    \/ isClassDefinition(TrimmedLine, searchTerm, BeforeMatch, languageId)
    \/ isPropertyAccess(TrimmedLine, searchTerm, BeforeMatch, AfterMatch)

\* categorizeMatch came to its variable-usage test: it did not throw and
\* none of the twelve tests before it succeeded
ReachesVariableUsage ==
    /\ Classified /\ category \in UsageCategory
    /\ ~EarlierTestSucceeds

\* C27: categorizeMatch returns OTHER only if the trimmed text before the
\* match is one of the bare keywords const, let, var, function or ends with
\* `[`; every other input that reaches the variable-usage test gives
\* VARIABLE_USAGE.
C27_OtherOnlyAfterKeywordOrBracket ==
    /\ (Classified /\ category = OTHER_CATEGORY) => KeywordOrBracketBefore
    /\ (Classified /\ category # VARIABLE_USAGE /\ ~KeywordOrBracketBefore)
           => ~ReachesVariableUsage

\* C27 witness: in Python, the name after a bare `let` reached the
\* variable-usage test and was classified OTHER
C27_Witness ==
    /\ lineText = "let x" /\ columnIndex = 4 /\ searchTerm = "x"
    /\ languageId = "python"
    /\ ReachesVariableUsage
    /\ BeforeMatch = "let"
    /\ category = OTHER_CATEGORY

\* lastSearchTerm goes with currentResults: both null, or the term of the
\* results
TermOfTheResults ==
    IF currentResults = Null THEN lastSearchTerm = Null
    ELSE lastSearchTerm = currentResults.searchTerm

C29_TotalIsTheSumOfTheLists ==
    currentResults # Null =>
        currentResults.totalMatches = Len(AllMatches(currentResults, 1))

\* every search issued has come to its end
AllSearchesDone ==
    \A i \in 1..Len(commands) : commands[i].kind = "search" => commands[i].pc = "done"

\* the commands that are to show in the tree: clearResults, and the
\* searches that were not cancelled
Effective ==
    {i \in 1..Len(commands) : commands[i].kind = "clear" \/ ~commands[i].cancelled}

\* what the tree holds when the command issued last among these decides
ResultsOfTheLastCommand ==
    IF Effective = {} THEN Null
    ELSE IF commands[MaxOf(Effective)].kind = "clear" THEN Null
    ELSE commands[MaxOf(Effective)].results

\* C30: when search and clear commands overlap, once every search has
\* completed the tree shows the results of the last-started uncancelled
\* search, or nothing if clearResults was issued after that search started;
\* an earlier-started search never replaces the results of a later one.
C30_LastCommandWins ==
    AllSearchesDone => currentResults = ResultsOfTheLastCommand

=============================================================================
